---- MODULE Spec2Model ----
(***************************************************************************)
(* A model of the metrics aggregation core of go-gcp-metrics: the static   *)
(* counter, the gauge, the distribution (histogram with Welford moments),  *)
(* the label registry and the dynamic facades built on it, the Metrics     *)
(* collection, its exporter and the emission scheduler.                    *)
(*                                                                         *)
(* The module holds several specifications over one set of variables; each *)
(* specification moves only the variables of its component and leaves the  *)
(* others at their initial value:                                          *)
(*   Spec         the dynamic counter and its label registry, concurrent   *)
(*   SpecCounter  one static counter under concurrent Inc/Add              *)
(*   SpecDist     one distribution under concurrent Update/GetAndClear     *)
(*   SpecBucket   the pure function bucketForValue                         *)
(*   SpecLabels   the pure function labelValuesToMap                       *)
(*   SpecSched    the goroutine of ScheduleMetricsEmit, its ticker and ctx *)
(*   SpecSchedFair  the same under the fairness of its scheduling          *)
(*   SpecCombine  the iterators of iterutil.CombineMetrics and a consumer  *)
(*   SpecGauge    one static gauge under concurrent Set                    *)
(*   SpecFactory  the label merge of the facades' factories                *)
(*   SpecEmit     a Metrics collection and GcpMetricsEmitter.Emit          *)
(*   SpecStop     SpecSched with a caller that stops the ticker            *)
(*   SpecStatic   the static metrics called through the labelled interface *)
(*   SpecWalk     All() of a dynamic counter while instances are installed *)
(*   SpecTotal    the outcome of each distribution operation on any input  *)
(*   SpecMono     one static counter under non-negative Add and Value      *)
(*   SpecLocks    several distributions, each under its own mutex          *)
(*   SpecProgress every kind of call under fair scheduling                 *)
(*   SpecValue    Value of a dynamic counter beside concurrent Inc         *)
(*   SpecSeries   the instances one dynamic metric builds for two sequences*)
(*   SpecAppend   concurrent creation of metrics in one Metrics collection *)
(*                                                                         *)
(* int64 is modelled as a two's complement integer of IntBits bits, with   *)
(* the wrap-around of Go's integer arithmetic.  float64 is modelled by     *)
(* exact rationals <<numerator, denominator>>: rounding is not modelled.   *)
(***************************************************************************)
EXTENDS Integers, Sequences, FiniteSets, TLC

\* ------------------------------------------------------------------ bounds

\* Width of the modelled int64.
IntBits == 6
\* Number of concurrent callers (goroutines).
NumProcs == 2
\* Total number of dynamic counter calls started in one behaviour.
MaxCalls == 3
\* Total number of static counter calls started in one behaviour.
MaxCounterCalls == 4
\* Total number of distribution calls started in one behaviour.
MaxDistCalls == 5
\* Largest step and bucket count of the distributions examined.
MaxStep == 3
MaxBuckets == 3
\* Longest label key list and label value list examined.
MaxKeys == 2
MaxVals == 3
\* Most before-emit listeners registered, and most times the ticker fires.
MaxListeners == 2
MaxTicks == 3
\* Longest static slice and facade list combined, the latest element at which
\* the consumer breaks, and the number of times the sequence is iterated.
MaxStatic == 2
MaxFacades == 2
MaxStop == 4
MaxPasses == 2
\* Total number of gauge calls started in one behaviour.
MaxGaugeCalls == 4
\* Metrics created, updates made and Emit calls started on one collection.
MaxMetrics == 2
MaxUpdates == 2
MaxEmits == 1
\* Number of times the sequence of LabelRegistry.All is iterated, and number of
\* calls on the dynamic counter started while it is.
MaxWalks == 2
MaxWalkCalls == 2
\* Number of Value() calls on the static counter.
MaxReads == 3
\* Distributions of one dynamic distribution, and calls started on them.
NumDists == 2
MaxLockCalls == 3
\* Calls started, on all the metrics together, by the callers whose progress is
\* examined.
MaxProgCalls == 2
\* Creation and registration calls started on one collection by concurrent callers.
MaxAppendCalls == 3

Procs == 1..NumProcs

\* --------------------------------------------------------- int64 arithmetic

RECURSIVE Pow2(_)
Pow2(n) == IF n = 0 THEN 1 ELSE 2 * Pow2(n - 1)

MinInt == -Pow2(IntBits - 1)
MaxInt == Pow2(IntBits - 1) - 1
IntRange == MinInt..MaxInt

\* The value an int64 holds after an arithmetic result x (two's complement).
Wrap(x) == ((x - MinInt) % Pow2(IntBits)) + MinInt

\* Go's integer quotient, truncated toward zero (b # 0).
TruncDiv(a, b) ==
    LET abs(x) == IF x < 0 THEN -x ELSE x
        q == abs(a) \div abs(b)
    IN  Wrap(IF (a < 0) = (b < 0) THEN q ELSE -q)

Min2(a, b) == IF a < b THEN a ELSE b
Max2(a, b) == IF a > b THEN a ELSE b

\* ------------------------------------------------------------------ inputs

\* Label keys and label values (Go strings; "" is a legal label value).
LabelKeyNames == {"status", "method"}
LabelValues == {"", "200", "GET"}
\* The separator of labelValuesKey (the byte 0x00 in the source).
Separator == "|"

\* All sequences over S of length at most n.
SeqsUpTo(S, n) == UNION {[1..k -> S] : k \in 0..n}

\* The label value lists the dynamic counter is called with.
CallLabelValues == {<<>>, <<"">>, <<"200", "GET">>}
\* The deltas StaticCounter.Add is called with (Add does not validate the sign).
AddDeltas == {2, -1}
\* The deltas DynamicCounter.Add is called with.
DynAddDeltas == {2}

\* ------------------------------------------------------------------- state

VARIABLES
    \* Spec: the dynamic counter facade, its registry and the counter heap
    dc,            \* the DynamicCounter: Name, staticLabels, labelKeys
    registry,      \* LabelRegistry.registry (sync.Map): key -> instance
    counters,      \* every StaticCounter the factory built, by identity
    callers,       \* per caller: the call in progress and its locals
    started,       \* number of calls started
    factoryCalls,  \* history: the label values of each factory call
    returned,      \* history: <<label values, instance>> of every Get return
    applied,       \* history: the completed Inc/Add calls <<label values, delta>>
    \* SpecCounter: one static counter
    counter,       \* the StaticCounter
    ccalls,        \* per caller: the Inc/Add call in flight, or <<>>
    cstarted,      \* number of calls started
    cinitial,      \* history: the value before the calls
    cissued,       \* history: sum of the deltas of the calls started
    cpeak,         \* history: the most calls that were in flight at one time
    \* SpecDist: one distribution
    dist,          \* the StaticDistribution (value: the running state)
    slices,        \* the backing arrays of the []int64 slices, by allocation
    mu,            \* dist.mu: 0 when unlocked, else the holder
    dcalls,        \* per caller: the Update/GetAndClear call in progress
    dstarted,      \* number of calls started
    window,        \* history: values updated since the last GetAndClear
    snapshots,     \* history: the snapshots GetAndClear returned, in order
    dcompleted,    \* history: number of Update calls that returned
    \* SpecBucket, SpecLabels: inputs and result of the pure functions
    bIn, bOut, lIn, lOut,
    \* SpecSched: the emission scheduler of ScheduleMetricsEmit
    listeners,     \* metrics.BeforeEmitListeners: listener ids, NilListener for nil
    ctxDone,       \* ctx.Done() is closed
    tickerC,       \* number of ticks buffered in ticker.C (capacity 1)
    tickerStopped, \* ticker.Stop() was called
    sched,         \* the background goroutine: its position and loop index
    fired,         \* number of times the ticker fired
    ticks,         \* history: number of ticks the goroutine began
    tickLog,       \* history: the calls and returns of the latest tick
    emitCalls,     \* history: number of Emit invocations
    failedTicks,   \* history: the ticks whose backend write failed
    lateTicks,     \* history: number of ticks begun after the cancellation
    cancelAt,      \* history: where the goroutine was when the cancellation fired
    \* SpecCombine: one sequence of iterutil.CombineMetrics and its consumer
    cmIn,          \* the static slice, the facades' instances, the consumer's break
    cmIt,          \* the iteration: its position in the nested loops
    cmOut,         \* history: the elements yielded in the current pass
    cmPrev,        \* history: the elements yielded in each completed pass
    \* SpecGauge: one static gauge
    gauge,         \* the StaticGauge
    gcalls,        \* per caller: the Set call in progress, or <<>>
    gstarted,      \* number of calls started
    gcompleted,    \* history: number of Set calls that returned
    glive,         \* history: arguments of the returned calls no later call followed
    glast,         \* history: the argument of the call that returned last
    gpeak,         \* history: the most calls that were in progress at one time
    \* SpecFactory: the arguments and the result of a facade's factory
    fIn, fOut,
    \* SpecEmit: a Metrics collection and the Emit of GcpMetricsEmitter
    metrics,       \* the Metrics: its six lists, of instances and of facades
    insts,         \* every instance created, statically or by a factory
    facades,       \* every dynamic facade created: its kind and its registry
    emitter,       \* the GcpMetricsEmitter: Client, ProjectID, MonitoredResource
    em,            \* the Emit call in progress: position and timeSeriesList
    requests,      \* history: the CreateTimeSeries requests sent
    emBudget,      \* creation, update and Emit calls started
    liveAtStart,   \* history: the instances live when the latest Emit began
    visited,       \* history: the instances the latest Emit read
    outcome,       \* history: how the latest Emit ended
    created,       \* history: the creation calls, in order, and what each created
    cands,         \* history: the states since the latest Emit began that agree with
                   \* every value it has put in its list
    \* SpecStatic: one call on a static metric, with and without label values
    stIn, stOut,
    \* SpecWalk: a consumer of LabelRegistry.All, concurrent with Get
    walk,          \* the Range call in progress: the keys it has visited
    walks,         \* number of times the sequence was iterated
    walkOut,       \* history: the instances yielded by the latest walk, in order
    walkStart,     \* history: the instances installed when the latest walk began
    walkEnd,       \* history: how the latest walk ended
    \* SpecTotal: one operation of the aggregation core and how it ended
    tIn, tOut,
    \* SpecMono: the readers of the static counter
    creads,        \* history: the values Value() returned, in the order of the loads
    \* SpecLocks: the distributions of several label combinations
    ldists,        \* per distribution: the StaticDistribution and its bucket array
    lmu,           \* per mutex: 0 when unlocked, else the holder
    lcalls,        \* per caller: the Update/GetAndClear call in progress
    lstarted,      \* number of calls started
    lorder,        \* history: per distribution, the critical sections in order
    \* SpecValue: the readers of the dynamic counter
    vreads,        \* history: the Value calls that returned
    \* SpecSeries: two Get calls on a new registry, and the registry after them
    sIn, sOut,
    \* SpecAppend: concurrent creation and registration on one Metrics
    alists,        \* the lists of the Metrics, by field name
    acalls,        \* per caller: the call in progress and the slice it read
    astarted,      \* number of calls started
    areturned,     \* history: per list, the elements whose call has returned
    araced         \* history: the lists two calls were appending to at one time

regVars == <<dc, registry, counters, callers, started, factoryCalls, returned, applied>>
cntVars == <<counter, ccalls, cstarted, cinitial, cissued, cpeak>>
distVars == <<dist, slices, mu, dcalls, dstarted, window, snapshots, dcompleted>>
bucketVars == <<bIn, bOut>>
labelVars == <<lIn, lOut>>
schedVars == <<listeners, ctxDone, tickerC, tickerStopped, sched, fired, ticks, tickLog,
               emitCalls, failedTicks, lateTicks, cancelAt>>
\* The variables of the specifications of the collection and its scheduler.
combVars == <<cmIn, cmIt, cmOut, cmPrev>>
gaugeVars == <<gauge, gcalls, gstarted, gcompleted, glive, glast, gpeak>>
factoryVars == <<fIn, fOut>>
emitVars == <<metrics, insts, facades, emitter, em, requests, emBudget, liveAtStart,
              visited, outcome, created, cands>>
staticVars == <<stIn, stOut>>
\* The variables of the specifications of single operations and their callers.
walkVars == <<walk, walks, walkOut, walkStart, walkEnd>>
totalVars == <<tIn, tOut>>
monoVars == <<creads>>
lockVars == <<ldists, lmu, lcalls, lstarted, lorder>>
valueVars == <<vreads>>
seriesVars == <<sIn, sOut>>
appendVars == <<alists, acalls, astarted, areturned, araced>>
lateVars == <<lockVars, valueVars, seriesVars, appendVars>>
moreVars == <<staticVars, walkVars, totalVars, monoVars, lateVars>>
restVars == <<schedVars, combVars, gaugeVars, factoryVars, emitVars, moreVars>>
vars == <<regVars, cntVars, distVars, bucketVars, labelVars, restVars>>

\* ------------------------------------------------------------------ labels

EmptyMap == [k \in {} |-> ""]

\* m[k] = v on a Go map.
MapPut(m, k, v) == [x \in DOMAIN m \cup {k} |-> IF x = k THEN v ELSE m[x]]

\* maps.Copy(dst, src): every entry of src is stored into dst.
MapsCopy(dst, src) ==
    [x \in DOMAIN dst \cup DOMAIN src |-> IF x \in DOMAIN src THEN src[x] ELSE dst[x]]

\* The loop of labelValuesToMap from (1-based) position i on.
RECURSIVE labelValuesToMapLoop(_, _, _, _)
labelValuesToMapLoop(keys, values, i, result) ==
    IF i > Len(keys) THEN result
    ELSE labelValuesToMapLoop(keys, values, i + 1,
            IF i <= Len(values) THEN MapPut(result, keys[i], values[i]) ELSE result)

\* Mutant: the guard i < len(values) is missing, a key without a value gets "".
labelValuesToMap_NoGuard(keys, values) ==
    LET padded == [i \in 1..Len(keys) |-> IF i <= Len(values) THEN values[i] ELSE ""]
    IN  labelValuesToMapLoop(keys, padded, 1, EmptyMap)

labelValuesToMap(keys, values) == labelValuesToMapLoop(keys, values, 1, EmptyMap)

\* strings.Join(values, sep)
RECURSIVE Join(_, _)
Join(values, sep) ==
    IF Len(values) = 0 THEN ""
    ELSE IF Len(values) = 1 THEN values[1]
    ELSE values[1] \o sep \o Join(Tail(values), sep)

labelValuesKey(values) == Join(values, Separator)

\* ------------------------------------------------------------ distribution

\* float64 values as exact rationals <<n, d>> with d > 0, in lowest terms.
RECURSIVE Gcd(_, _)
Gcd(a, b) == IF b = 0 THEN a ELSE Gcd(b, a % b)

Rat(n, d) ==
    LET s == IF d < 0 THEN -1 ELSE 1
        an == IF n < 0 THEN -n ELSE n
        g == Gcd(an, s * d)
    IN  IF n = 0 THEN <<0, 1>> ELSE <<(s * n) \div g, (s * d) \div g>>

Float64(i) == <<i, 1>>
FAdd(x, y) == Rat(x[1] * y[2] + y[1] * x[2], x[2] * y[2])
FSub(x, y) == Rat(x[1] * y[2] - y[1] * x[2], x[2] * y[2])
FMul(x, y) == Rat(x[1] * y[1], x[2] * y[2])
FDiv(x, y) == Rat(x[1] * y[2], x[2] * y[1])
FZero == <<0, 1>>

\* A []int64 is a reference to a backing array of the heap `slices`; the
\* distribution's Buckets is the first array allocated.
BucketsPtr == 1

\* make([]int64, n): a zeroed array with indices 0..n-1.
MakeInt64s(n) == [i \in 0..(n - 1) |-> 0]

NewStaticDistribution(name, unit, step, numBuckets, labels) ==
    [Name |-> name, Unit |-> unit, Offset |-> 0, Step |-> step,
     NumBuckets |-> numBuckets, Labels |-> labels,
     value |-> [Buckets |-> BucketsPtr, NumSamples |-> 0,
                Mean |-> FZero, SumOfSquaredDeviation |-> FZero]]

\* Mutant: the quotient is not shifted by one step (value/Step).
bucketForValue_NoShift(d, value) ==
    Min2(Max2(0, TruncDiv(Wrap(value - d.Offset), d.Step)), d.NumBuckets + 1)

bucketForValue(d, value) ==
    Min2(Max2(0, TruncDiv(Wrap(Wrap(value - d.Offset) + d.Step), d.Step)),
         d.NumBuckets + 1)

\* ---------------------------------------------------------- static counter

NewStaticCounter(name, labels) == [Name |-> name, Labels |-> labels, value |-> 0]

\* Mutant: the delta is stored instead of added (atomic.StoreInt64).
StaticCounter_Add_Store(c, n) == [c EXCEPT !.value = n]

\* atomic.AddInt64(&c.value, n)
StaticCounter_Add(c, n) == [c EXCEPT !.value = Wrap(c.value + n)]

\* atomic.AddInt64(&c.value, 1)
StaticCounter_Inc(c) == [c EXCEPT !.value = Wrap(c.value + 1)]

\* atomic.LoadInt64(&c.value)
StaticCounter_Value(c) == c.value

\* ------------------------------------------------------------ static gauge

NewStaticGauge(name, labels) == [Name |-> name, Labels |-> labels, value |-> 0]

\* Mutant: the argument is added to the value (atomic.AddInt64).
StaticGauge_Set_Add(g, n) == [g EXCEPT !.value = Wrap(g.value + n)]

\* atomic.StoreInt64(&g.value, n)
StaticGauge_Set(g, n) == [g EXCEPT !.value = n]

\* atomic.LoadInt64(&g.value)
StaticGauge_Value(g) == g.value

\* ------------------------------------------------------- the initial states

NewDynamicCounter(name, staticLabels, labelKeys) ==
    [Name |-> name, staticLabels |-> staticLabels, labelKeys |-> labelKeys]

\* A caller with no call in progress.
IdleCaller == [pc |-> "idle", op |-> "", n |-> 0, labelValues |-> <<>>,
               newValue |-> 0, actual |-> 0]

RegFresh ==
    /\ registry = EmptyMap
    /\ counters = <<>>
    /\ callers = [p \in Procs |-> IdleCaller]
    /\ started = 0
    /\ factoryCalls = <<>>
    /\ returned = {}
    /\ applied = EmptyMap

RegIdle ==
    /\ dc = NewDynamicCounter("requests", EmptyMap, <<"status", "method">>)
    /\ RegFresh

RegInit ==
    /\ dc = NewDynamicCounter("requests", [k \in {"env"} |-> "prod"], <<"status", "method">>)
    /\ RegFresh

CntIdle ==
    /\ counter = NewStaticCounter("requests", EmptyMap)
    /\ ccalls = [p \in Procs |-> <<>>]
    /\ cstarted = 0
    /\ cinitial = 0
    /\ cissued = 0
    /\ cpeak = 0

IdleDistCaller == [pc |-> "idle", value |-> 0, result |-> <<>>]

DistFresh ==
    /\ slices = <<MakeInt64s(dist.NumBuckets + 2)>>
    /\ mu = 0
    /\ dcalls = [p \in Procs |-> IdleDistCaller]
    /\ dstarted = 0
    /\ window = <<>>
    /\ snapshots = <<>>
    /\ dcompleted = 0

DistIdle ==
    /\ dist = NewStaticDistribution("latency", "ms", 1, 0, EmptyMap)
    /\ DistFresh

BucketIdle == bIn = <<>> /\ bOut = <<>>
LabelIdle == lIn = <<>> /\ lOut = <<>>

\* The goroutine of ScheduleMetricsEmit before it is started.
IdleSched == [pc |-> "new", i |-> 0]

SchedFresh ==
    /\ ctxDone = FALSE
    /\ tickerC = 0
    /\ tickerStopped = FALSE
    /\ sched = IdleSched
    /\ fired = 0
    /\ ticks = 0
    /\ tickLog = <<>>
    /\ emitCalls = 0
    /\ failedTicks = {}
    /\ lateTicks = 0
    /\ cancelAt = <<>>

SchedIdle == listeners = <<>> /\ SchedFresh

\* A sequence CombineMetrics returned, not iterated.
IdleIteration == [pc |-> "idle", i |-> 0, j |-> 0]

CombFresh == cmIt = IdleIteration /\ cmOut = <<>> /\ cmPrev = <<>>

CombIdle == cmIn = [static |-> <<>>, dynamic |-> <<>>, stopAfter |-> 0] /\ CombFresh

GaugeIdle ==
    /\ gauge = NewStaticGauge("queue_depth", EmptyMap)
    /\ gcalls = [p \in Procs |-> <<>>]
    /\ gstarted = 0
    /\ gcompleted = 0
    /\ glive = {}
    /\ glast = 0
    /\ gpeak = 0

FactoryIdle == fIn = <<>> /\ fOut = <<>>

\* NewMetrics(): six empty lists.
NewMetrics ==
    [Counters |-> <<>>, Distributions |-> <<>>, Gauges |-> <<>>,
     DynamicCounters |-> <<>>, DynamicDistributions |-> <<>>, DynamicGauges |-> <<>>]

\* No Emit call in progress.
IdleEmit == [pc |-> "idle", k |-> 0, list |-> <<>>]

EmitFresh ==
    /\ metrics = NewMetrics
    /\ insts = <<>>
    /\ facades = <<>>
    /\ em = IdleEmit
    /\ requests = <<>>
    /\ emBudget = [created |-> 0, updates |-> 0, emits |-> 0]
    /\ liveAtStart = {}
    /\ visited = {}
    /\ outcome = ""
    /\ created = <<>>
    /\ cands = {}

EmitIdle ==
    /\ emitter = [Client |-> TRUE, ProjectID |-> "project", MonitoredResource |-> TRUE]
    /\ EmitFresh

StaticIdle == stIn = <<>> /\ stOut = <<>>

\* No Range call in progress.
IdleWalk == [pc |-> "idle", keys |-> {}]

WalkIdle ==
    /\ walk = IdleWalk
    /\ walks = 0
    /\ walkOut = <<>>
    /\ walkStart = {}
    /\ walkEnd = ""

TotalIdle == tIn = <<>> /\ tOut = <<>>

MonoIdle == creads = <<>>

\* A caller with no call on a distribution in progress.
IdleLockCaller == [pc |-> "idle", d |-> 0, op |-> ""]

LockIdle ==
    /\ ldists = <<>>
    /\ lmu = <<>>
    /\ lcalls = [p \in Procs |-> IdleLockCaller]
    /\ lstarted = 0
    /\ lorder = <<>>

ValueIdle == vreads = <<>>

SeriesIdle == sIn = <<>> /\ sOut = <<>>

\* A caller with no creation call in progress.
IdleAppendCaller == [pc |-> "idle", list |-> "", x |-> 0, read |-> <<>>]

AppendIdle ==
    /\ alists = <<>>
    /\ acalls = [p \in Procs |-> IdleAppendCaller]
    /\ astarted = 0
    /\ areturned = <<>>
    /\ araced = {}

LateIdle == LockIdle /\ ValueIdle /\ SeriesIdle /\ AppendIdle

MoreIdle == StaticIdle /\ WalkIdle /\ TotalIdle /\ MonoIdle /\ LateIdle

RestIdle == SchedIdle /\ CombIdle /\ GaugeIdle /\ FactoryIdle /\ EmitIdle /\ MoreIdle

\* ------------------------------ Spec: the dynamic counter and its registry

\* Mutant: the dynamic labels are copied first, so a static label wins.
DynamicCounter_factory_StaticWins(d, vals) ==
    NewStaticCounter(d.Name,
        MapsCopy(MapsCopy(EmptyMap, labelValuesToMap(d.labelKeys, vals)), d.staticLabels))

\* The factory NewDynamicCounter gives its registry: the static labels overlaid
\* with the dynamic label values, on a new StaticCounter.
DynamicCounter_factory(d, vals) ==
    NewStaticCounter(d.Name,
        MapsCopy(MapsCopy(EmptyMap, d.staticLabels), labelValuesToMap(d.labelKeys, vals)))

\* sync.Map.Load(key): <<value, ok>>
SyncMap_Load(m, key) == IF key \in DOMAIN m THEN <<m[key], TRUE>> ELSE <<0, FALSE>>

\* Mutant: the new value is stored unconditionally (sync.Map.Store).
SyncMap_LoadOrStore_Store(m, key, value) == <<MapPut(m, key, value), value, FALSE>>

\* Mutant: the map keeps the latest entry only; storing a key drops the others.
SyncMap_LoadOrStore_Evict(m, key, value) ==
    IF key \in DOMAIN m THEN <<m, m[key], TRUE>> ELSE <<MapPut(EmptyMap, key, value), value, FALSE>>

\* sync.Map.LoadOrStore(key, value): <<the map after, actual, loaded>>
SyncMap_LoadOrStore(m, key, value) ==
    IF key \in DOMAIN m THEN <<m, m[key], TRUE>> ELSE <<MapPut(m, key, value), value, FALSE>>

\* Mutant: Get returns the instance it built, not the one LoadOrStore reports.
Get_Return_Built(newValue, actual) == newValue

\* The instance Get returns after LoadOrStore.
Get_Return(newValue, actual) == actual

\* sync.Map.Range at a moment when no store is in progress: every installed value.
LabelRegistry_All(m) == {m[k] : k \in DOMAIN m}

\* What DynamicCounter.Value(labelValues...) reads when no call is in progress: the
\* value of the installed instance, or 0 from the instance a miss creates.
DynamicCounter_Value(m, heap, labelValues) ==
    LET l == SyncMap_Load(m, labelValuesKey(labelValues))
    IN  IF l[2] THEN StaticCounter_Value(heap[l[1]]) ELSE 0

\* Mutant: Get does not look the key up first, and builds an instance on every call.
Get_Found_Never(l) == FALSE

\* if value, ok := lr.registry.Load(key); ok { return value.(T) }
Get_Found(l) == l[2]

RegOthers == <<cntVars, distVars, bucketVars, labelVars, restVars>>

\* Caller p calls Inc(labelValues...) or Add(n, labelValues...); Get computes
\* the key and looks it up: a hit returns the instance, a miss goes on to the
\* factory.
Get_Load(p, op, n) ==
    /\ callers[p].pc = "idle"
    /\ started < MaxCalls
    /\ started' = started + 1
    /\ \E lv \in CallLabelValues :
          LET l == SyncMap_Load(registry, labelValuesKey(lv))
              c == [IdleCaller EXCEPT !.op = op, !.n = n, !.labelValues = lv]
          IN  IF Get_Found(l)
              THEN /\ callers' = [callers EXCEPT ![p] = [c EXCEPT !.pc = "apply", !.actual = l[1]]]
                   /\ returned' = returned \cup {<<lv, l[1]>>}
              ELSE /\ callers' = [callers EXCEPT ![p] = [c EXCEPT !.pc = "factory"]]
                   /\ UNCHANGED returned
    /\ UNCHANGED <<dc, registry, counters, factoryCalls, applied, RegOthers>>

Dyn_CallInc(p) == Get_Load(p, "Inc", 1)
Dyn_CallAdd(p) == \E n \in DynAddDeltas : Get_Load(p, "Add", n)

\* Get: on a miss the factory builds a new instance.
Get_Factory(p) ==
    /\ callers[p].pc = "factory"
    /\ counters' = Append(counters, DynamicCounter_factory(dc, callers[p].labelValues))
    /\ factoryCalls' = Append(factoryCalls, callers[p].labelValues)
    /\ callers' = [callers EXCEPT ![p].pc = "store", ![p].newValue = Len(counters')]
    /\ UNCHANGED <<dc, registry, started, returned, applied, RegOthers>>

\* Get: LoadOrStore installs the new instance unless one is installed, and Get
\* returns.
Get_LoadOrStore(p) ==
    /\ callers[p].pc = "store"
    /\ LET s == SyncMap_LoadOrStore(registry, labelValuesKey(callers[p].labelValues),
                                    callers[p].newValue)
           r == Get_Return(callers[p].newValue, s[2])
       IN  /\ registry' = s[1]
           /\ callers' = [callers EXCEPT ![p].pc = "apply", ![p].actual = r]
           /\ returned' = returned \cup {<<callers[p].labelValues, r>>}
    /\ UNCHANGED <<dc, counters, started, factoryCalls, applied, RegOthers>>

\* The history of completed calls after one of caller p's.
AppliedAfter(p) ==
    LET lv == callers[p].labelValues
    IN  MapPut(applied, lv, (IF lv \in DOMAIN applied THEN applied[lv] ELSE 0) + callers[p].n)

\* Inc: the instance Get returned is incremented, and the call returns.
Dyn_Inc(p) ==
    /\ callers[p].pc = "apply" /\ callers[p].op = "Inc"
    /\ counters' = [counters EXCEPT ![callers[p].actual] = StaticCounter_Inc(@)]
    /\ applied' = AppliedAfter(p)
    /\ callers' = [callers EXCEPT ![p] = IdleCaller]
    /\ UNCHANGED <<dc, registry, started, factoryCalls, returned, RegOthers>>

\* Add: n is added to the instance Get returned, and the call returns.
Dyn_Add(p) ==
    /\ callers[p].pc = "apply" /\ callers[p].op = "Add"
    /\ counters' = [counters EXCEPT ![callers[p].actual] = StaticCounter_Add(@, callers[p].n)]
    /\ applied' = AppliedAfter(p)
    /\ callers' = [callers EXCEPT ![p] = IdleCaller]
    /\ UNCHANGED <<dc, registry, started, factoryCalls, returned, RegOthers>>

Init == RegInit /\ CntIdle /\ DistIdle /\ BucketIdle /\ LabelIdle /\ RestIdle
Next ==
    \E p \in Procs :
        \/ Dyn_CallInc(p)
        \/ Dyn_CallAdd(p)
        \/ Get_Factory(p)
        \/ Get_LoadOrStore(p)
        \/ Dyn_Inc(p)
        \/ Dyn_Add(p)
Spec == Init /\ [][Next]_vars

\* ------------------------------------------------- SpecBucket: bucketForValue

BucketInit ==
    /\ bIn \in [step : 1..MaxStep, numBuckets : 0..MaxBuckets, value : IntRange]
    /\ bOut = <<>>

\* Update's bucket selection on a new distribution (distribution.go:57).
BucketForValue_Apply ==
    /\ bOut = <<>>
    /\ bOut' = <<bucketForValue(
                   NewStaticDistribution("latency", "ms", bIn.step, bIn.numBuckets, EmptyMap),
                   bIn.value)>>
    /\ UNCHANGED <<bIn, regVars, cntVars, distVars, labelVars, restVars>>

InitBucket == BucketInit /\ RegIdle /\ CntIdle /\ DistIdle /\ LabelIdle /\ RestIdle
NextBucket == BucketForValue_Apply
SpecBucket == InitBucket /\ [][NextBucket]_vars

\* ----------------------------------------------- SpecLabels: labelValuesToMap

LabelInit ==
    /\ lIn \in [keys : SeqsUpTo(LabelKeyNames, MaxKeys), values : SeqsUpTo(LabelValues, MaxVals)]
    /\ lOut = <<>>

LabelValuesToMap_Apply ==
    /\ lOut = <<>>
    /\ lOut' = <<labelValuesToMap(lIn.keys, lIn.values)>>
    /\ UNCHANGED <<lIn, regVars, cntVars, distVars, bucketVars, restVars>>

InitLabels == LabelInit /\ RegIdle /\ CntIdle /\ DistIdle /\ BucketIdle /\ RestIdle
NextLabels == LabelValuesToMap_Apply
SpecLabels == InitLabels /\ [][NextLabels]_vars

\* ------------------------------------- SpecCounter: one static counter

\* The values the counter holds before the calls.
CounterInitialValues == {0, 5, MaxInt - 1}

CounterInit ==
    /\ cinitial \in CounterInitialValues
    /\ counter = [NewStaticCounter("requests", EmptyMap) EXCEPT !.value = cinitial]
    /\ ccalls = [p \in Procs |-> <<>>]
    /\ cstarted = 0
    /\ cissued = 0
    /\ cpeak = 0

CounterInFlight(cc) == Cardinality({q \in Procs : cc[q] # <<>>})

\* Caller p starts the call op(n) on the counter.
CounterCall(p, op, n) ==
    /\ ccalls[p] = <<>>
    /\ cstarted < MaxCounterCalls
    /\ ccalls' = [ccalls EXCEPT ![p] = <<[op |-> op, n |-> n]>>]
    /\ cstarted' = cstarted + 1
    /\ cissued' = cissued + n
    /\ cpeak' = Max2(cpeak, CounterInFlight(ccalls'))
    /\ UNCHANGED <<counter, cinitial>>

Counter_CallInc(p) ==
    /\ CounterCall(p, "Inc", 1)
    /\ UNCHANGED <<regVars, distVars, bucketVars, labelVars, restVars>>

Counter_CallAdd(p) ==
    /\ \E n \in AddDeltas : CounterCall(p, "Add", n)
    /\ UNCHANGED <<regVars, distVars, bucketVars, labelVars, restVars>>

\* StaticCounter.Inc: the atomic add of 1, and the return.
Counter_Inc(p) ==
    /\ ccalls[p] # <<>> /\ ccalls[p][1].op = "Inc"
    /\ counter' = StaticCounter_Inc(counter)
    /\ ccalls' = [ccalls EXCEPT ![p] = <<>>]
    /\ UNCHANGED <<cstarted, cinitial, cissued, cpeak>>
    /\ UNCHANGED <<regVars, distVars, bucketVars, labelVars, restVars>>

\* StaticCounter.Add: the atomic add of n, and the return.
Counter_Add(p) ==
    /\ ccalls[p] # <<>> /\ ccalls[p][1].op = "Add"
    /\ counter' = StaticCounter_Add(counter, ccalls[p][1].n)
    /\ ccalls' = [ccalls EXCEPT ![p] = <<>>]
    /\ UNCHANGED <<cstarted, cinitial, cissued, cpeak>>
    /\ UNCHANGED <<regVars, distVars, bucketVars, labelVars, restVars>>

InitCounter == CounterInit /\ RegIdle /\ DistIdle /\ BucketIdle /\ LabelIdle /\ RestIdle
NextCounter ==
    \E p \in Procs :
        \/ Counter_CallInc(p)
        \/ Counter_CallAdd(p)
        \/ Counter_Inc(p)
        \/ Counter_Add(p)
SpecCounter == InitCounter /\ [][NextCounter]_vars

\* ----------------------------------------- SpecDist: one distribution

\* The values Update is called with.
UpdateValues == {-1, 1, 4}
\* The step and bucket count of the distribution.
DistStep == 2
DistNumBuckets == 1

\* Mutant: the caller does not wait for the mutex.
Mutex_CanLock_NoWait(m) == TRUE

\* d.mu.Lock() returns only when no caller holds the mutex.
Mutex_CanLock(m) == m = 0

\* Mutant: the call returns with the mutex held.
Mutex_Unlock_Held(m) == m

\* defer d.mu.Unlock(): the mutex is free when the call returns.
Mutex_Unlock(m) == 0

\* d.value.Buckets[bucket] += 1 on the backing array.
Update_Bucket(d, heap, value) ==
    [heap EXCEPT ![d.value.Buckets][bucketForValue(d, value)] = Wrap(@ + 1)]

\* d.value.NumSamples += 1
Update_NumSamples(val) == [val EXCEPT !.NumSamples = Wrap(@ + 1)]

\* Mutant: the second factor is delta, the deviation from the mean before the update.
Update_Moments_OldMean(val, value) ==
    LET delta == FSub(Float64(value), val.Mean)
        mean == FAdd(val.Mean, FDiv(delta, Float64(val.NumSamples)))
    IN  [val EXCEPT !.Mean = mean,
                    !.SumOfSquaredDeviation = FAdd(@, FMul(delta, delta))]

\* Welford's update of Mean and SumOfSquaredDeviation.
Update_Moments(val, value) ==
    LET delta == FSub(Float64(value), val.Mean)
        mean == FAdd(val.Mean, FDiv(delta, Float64(val.NumSamples)))
    IN  [val EXCEPT !.Mean = mean,
                    !.SumOfSquaredDeviation = FAdd(@, FMul(delta, FSub(Float64(value), mean)))]

\* Mutant: the result's Buckets is the distribution's own slice, not a copy.
GetAndClear_Copy_Alias(val, heap) == <<val, heap>>

\* The copy GetAndClear makes: a new array holding the bucket counts, and the
\* three scalars.  Gives <<result, heap>>.
GetAndClear_Copy(val, heap) ==
    LET new == Append(heap, heap[val.Buckets])
    IN  <<[val EXCEPT !.Buckets = Len(new)], new>>

\* Mutant: NumSamples is not reset.
GetAndClear_ClearValue_KeepCount(val) ==
    [val EXCEPT !.Mean = FZero, !.SumOfSquaredDeviation = FZero]

\* Mutant: Mean is not reset.
GetAndClear_ClearValue_KeepMean(val) ==
    [val EXCEPT !.NumSamples = 0, !.SumOfSquaredDeviation = FZero]

\* NumSamples = 0; Mean = 0; SumOfSquaredDeviation = 0
GetAndClear_ClearValue(val) ==
    [val EXCEPT !.NumSamples = 0, !.Mean = FZero, !.SumOfSquaredDeviation = FZero]

\* clear(d.value.Buckets): every element of the backing array is zeroed in place.
ClearSlice(heap, ptr) == [heap EXCEPT ![ptr] = [i \in DOMAIN @ |-> 0]]

DistInit ==
    /\ dist = NewStaticDistribution("latency", "ms", DistStep, DistNumBuckets, EmptyMap)
    /\ DistFresh

DistOthers == <<regVars, cntVars, bucketVars, labelVars, restVars>>

\* Caller p calls Update(v).
Dist_CallUpdate(p) ==
    /\ dcalls[p].pc = "idle"
    /\ dstarted < MaxDistCalls
    /\ \E v \in UpdateValues :
          dcalls' = [dcalls EXCEPT ![p] = [pc |-> "u_lock", value |-> v, result |-> <<>>]]
    /\ dstarted' = dstarted + 1
    /\ UNCHANGED <<dist, slices, mu, window, snapshots, dcompleted, DistOthers>>

\* Caller p calls GetAndClear().
Dist_CallGetAndClear(p) ==
    /\ dcalls[p].pc = "idle"
    /\ dstarted < MaxDistCalls
    /\ dcalls' = [dcalls EXCEPT ![p] = [pc |-> "g_lock", value |-> 0, result |-> <<>>]]
    /\ dstarted' = dstarted + 1
    /\ UNCHANGED <<dist, slices, mu, window, snapshots, dcompleted, DistOthers>>

\* Update: d.mu.Lock()
Dist_UpdateLock(p) ==
    /\ dcalls[p].pc = "u_lock"
    /\ Mutex_CanLock(mu)
    /\ mu' = p
    /\ dcalls' = [dcalls EXCEPT ![p].pc = "u_bucket"]
    /\ UNCHANGED <<dist, slices, dstarted, window, snapshots, dcompleted, DistOthers>>

\* Update: the bucket of the value is incremented.
Dist_UpdateBucket(p) ==
    /\ dcalls[p].pc = "u_bucket"
    /\ slices' = Update_Bucket(dist, slices, dcalls[p].value)
    /\ window' = Append(window, dcalls[p].value)
    /\ dcalls' = [dcalls EXCEPT ![p].pc = "u_count"]
    /\ UNCHANGED <<dist, mu, dstarted, snapshots, dcompleted, DistOthers>>

\* Update: NumSamples is incremented.
Dist_UpdateNumSamples(p) ==
    /\ dcalls[p].pc = "u_count"
    /\ dist' = [dist EXCEPT !.value = Update_NumSamples(@)]
    /\ dcalls' = [dcalls EXCEPT ![p].pc = "u_moments"]
    /\ UNCHANGED <<slices, mu, dstarted, window, snapshots, dcompleted, DistOthers>>

\* Update: Mean and SumOfSquaredDeviation are updated.
Dist_UpdateMoments(p) ==
    /\ dcalls[p].pc = "u_moments"
    /\ dist' = [dist EXCEPT !.value = Update_Moments(@, dcalls[p].value)]
    /\ dcalls' = [dcalls EXCEPT ![p].pc = "u_unlock"]
    /\ UNCHANGED <<slices, mu, dstarted, window, snapshots, dcompleted, DistOthers>>

\* Update: the deferred d.mu.Unlock(), and the return.
Dist_UpdateUnlock(p) ==
    /\ dcalls[p].pc = "u_unlock"
    /\ mu' = Mutex_Unlock(mu)
    /\ dcalls' = [dcalls EXCEPT ![p] = IdleDistCaller]
    /\ dcompleted' = dcompleted + 1
    /\ UNCHANGED <<dist, slices, dstarted, window, snapshots, DistOthers>>

\* GetAndClear: d.mu.Lock()
Dist_GetAndClearLock(p) ==
    /\ dcalls[p].pc = "g_lock"
    /\ Mutex_CanLock(mu)
    /\ mu' = p
    /\ dcalls' = [dcalls EXCEPT ![p].pc = "g_copy"]
    /\ UNCHANGED <<dist, slices, dstarted, window, snapshots, dcompleted, DistOthers>>

\* GetAndClear: the copy is made.
Dist_GetAndClearCopy(p) ==
    /\ dcalls[p].pc = "g_copy"
    /\ LET c == GetAndClear_Copy(dist.value, slices)
       IN  /\ dcalls' = [dcalls EXCEPT ![p].pc = "g_clear", ![p].result = <<c[1]>>]
           /\ slices' = c[2]
    /\ UNCHANGED <<dist, mu, dstarted, window, snapshots, dcompleted, DistOthers>>

\* GetAndClear: the running state is cleared.
Dist_GetAndClearClear(p) ==
    /\ dcalls[p].pc = "g_clear"
    /\ slices' = ClearSlice(slices, dist.value.Buckets)
    /\ dist' = [dist EXCEPT !.value = GetAndClear_ClearValue(@)]
    /\ window' = <<>>
    /\ dcalls' = [dcalls EXCEPT ![p].pc = "g_unlock"]
    /\ UNCHANGED <<mu, dstarted, snapshots, dcompleted, DistOthers>>

\* GetAndClear: the deferred d.mu.Unlock(), and the return of the copy.
Dist_GetAndClearUnlock(p) ==
    /\ dcalls[p].pc = "g_unlock"
    /\ mu' = Mutex_Unlock(mu)
    /\ snapshots' = Append(snapshots, dcalls[p].result[1])
    /\ dcalls' = [dcalls EXCEPT ![p] = IdleDistCaller]
    /\ UNCHANGED <<dist, slices, dstarted, window, dcompleted, DistOthers>>

InitDist == DistInit /\ RegIdle /\ CntIdle /\ BucketIdle /\ LabelIdle /\ RestIdle
NextDist ==
    \E p \in Procs :
        \/ Dist_CallUpdate(p)
        \/ Dist_CallGetAndClear(p)
        \/ Dist_UpdateLock(p)
        \/ Dist_UpdateBucket(p)
        \/ Dist_UpdateNumSamples(p)
        \/ Dist_UpdateMoments(p)
        \/ Dist_UpdateUnlock(p)
        \/ Dist_GetAndClearLock(p)
        \/ Dist_GetAndClearCopy(p)
        \/ Dist_GetAndClearClear(p)
        \/ Dist_GetAndClearUnlock(p)
SpecDist == InitDist /\ [][NextDist]_vars

\* ------------------------------------- SpecSched: the emission scheduler

\* The registered functions; a nil func is registered as NilListener.
ListenerIds == {1, 2}
NilListener == 0

\* How one Emit call ends: it declines (nil client, empty project, nil
\* resource), has no time series to send, or sends the request, with or without
\* an error from CreateTimeSeries.
EmitOutcomes == {"declined", "empty", "written", "failed"}

\* Mutant: the listeners are visited from the last to the first.
ListenerAt_Reversed(ls, i) == ls[Len(ls) + 1 - i]

\* for _, listener := range m.BeforeEmitListeners: the element of iteration i.
ListenerAt(ls, i) == ls[i]

\* Mutant: the goroutine checks ctx between the steps of a tick and abandons it.
Tick_Next_CheckCtx(pos, done) ==
    IF done THEN "select"
    ELSE IF pos = "tick" THEN "notify" ELSE IF pos = "notify" THEN "emit" ELSE "select"

\* Mutant: Emit runs in a goroutine of its own (go emitter.Emit(...)) and the
\* loop goes back to the select at once.
Tick_Next_Detached(pos, done) ==
    IF pos = "tick" THEN "notify" ELSE "select"

\* The body of case <-ticker.C: the listeners, then Emit, then the select again,
\* whatever the state of ctx.
Tick_Next(pos, done) ==
    IF pos = "tick" THEN "notify" ELSE IF pos = "notify" THEN "emit" ELSE "select"

\* Mutant: the loop has no case for ctx.Done() (for range ticker.C).
CtxDone_Ready_Never(done) == FALSE

\* case <-ctx.Done() can proceed once the channel is closed.
CtxDone_Ready(done) == done

\* case <-ticker.C can proceed when a tick is buffered.
TickerC_Ready(c) == c > 0

\* Mutant: a failed write is not handled in Emit and unwinds the goroutine.
Emit_HandleWriteError_Panic(err) == IF err THEN "panic" ELSE "return"

\* if err := me.Client.CreateTimeSeries(ctx, req); err != nil { log } else { log }:
\* Emit returns in both cases.
Emit_HandleWriteError(err) == "return"

SchedOthers == <<regVars, cntVars, distVars, bucketVars, labelVars, combVars, gaugeVars,
                 factoryVars, emitVars, moreVars>>

\* AddBeforeEmitListener(listener), before the schedule is started.
Metrics_AddBeforeEmitListener ==
    /\ sched.pc = "new"
    /\ Len(listeners) < MaxListeners
    /\ \E l \in ListenerIds \cup {NilListener} : listeners' = Append(listeners, l)
    /\ UNCHANGED <<ctxDone, tickerC, tickerStopped, sched, fired, ticks, tickLog,
                   emitCalls, failedTicks, lateTicks, cancelAt, SchedOthers>>

\* ScheduleMetricsEmit: the ticker is created and the goroutine started.
ScheduleMetricsEmit ==
    /\ sched.pc = "new"
    /\ sched' = [sched EXCEPT !.pc = "select"]
    /\ UNCHANGED <<listeners, ctxDone, tickerC, tickerStopped, fired, ticks, tickLog,
                   emitCalls, failedTicks, lateTicks, cancelAt, SchedOthers>>

\* The interval elapses: the ticker sends on ticker.C, dropping the tick when
\* the buffer is full.
Ticker_Fire ==
    /\ sched.pc # "new"
    /\ ~tickerStopped
    /\ fired < MaxTicks
    /\ fired' = fired + 1
    /\ tickerC' = 1
    /\ UNCHANGED <<listeners, ctxDone, tickerStopped, sched, ticks, tickLog,
                   emitCalls, failedTicks, lateTicks, cancelAt, SchedOthers>>

\* The owner of ctx cancels it.
Ctx_Cancel ==
    /\ ~ctxDone
    /\ ctxDone' = TRUE
    /\ cancelAt' = <<[tick |-> ticks, pc |-> sched.pc, i |-> sched.i]>>
    /\ UNCHANGED <<listeners, tickerC, tickerStopped, sched, fired, ticks, tickLog,
                   emitCalls, failedTicks, lateTicks, SchedOthers>>

\* select takes case <-ticker.C: a tick begins.
Select_Tick ==
    /\ sched.pc = "select"
    /\ TickerC_Ready(tickerC)
    /\ tickerC' = tickerC - 1
    /\ ticks' = ticks + 1
    /\ lateTicks' = IF ctxDone THEN lateTicks + 1 ELSE lateTicks
    /\ tickLog' = <<>>
    /\ sched' = [pc |-> Tick_Next("tick", ctxDone), i |-> 1]
    /\ UNCHANGED <<listeners, ctxDone, tickerStopped, fired, emitCalls, failedTicks,
                   cancelAt, SchedOthers>>

\* select takes case <-ctx.Done(): the ticker is stopped and the goroutine returns.
Select_Done ==
    /\ sched.pc = "select"
    /\ CtxDone_Ready(ctxDone)
    /\ tickerStopped' = TRUE
    /\ sched' = [pc |-> "done", i |-> 0]
    /\ UNCHANGED <<listeners, ctxDone, tickerC, fired, ticks, tickLog, emitCalls,
                   failedTicks, lateTicks, cancelAt, SchedOthers>>

\* notifyBeforeEmitListeners: the next listener is called.
Notify_Call ==
    /\ sched.pc = "notify"
    /\ sched.i <= Len(listeners)
    /\ ListenerAt(listeners, sched.i) # NilListener
    /\ tickLog' = Append(tickLog, <<"call", ListenerAt(listeners, sched.i)>>)
    /\ sched' = [sched EXCEPT !.pc = "listener"]
    /\ UNCHANGED <<listeners, ctxDone, tickerC, tickerStopped, fired, ticks, emitCalls,
                   failedTicks, lateTicks, cancelAt, SchedOthers>>

\* notifyBeforeEmitListeners: a nil listener is passed over.
Notify_SkipNil ==
    /\ sched.pc = "notify"
    /\ sched.i <= Len(listeners)
    /\ ListenerAt(listeners, sched.i) = NilListener
    /\ sched' = [sched EXCEPT !.i = @ + 1]
    /\ UNCHANGED <<listeners, ctxDone, tickerC, tickerStopped, fired, ticks, tickLog,
                   emitCalls, failedTicks, lateTicks, cancelAt, SchedOthers>>

\* The listener returns to the loop.
Listener_Return ==
    /\ sched.pc = "listener"
    /\ tickLog' = Append(tickLog, <<"return", ListenerAt(listeners, sched.i)>>)
    /\ sched' = [pc |-> "notify", i |-> sched.i + 1]
    /\ UNCHANGED <<listeners, ctxDone, tickerC, tickerStopped, fired, ticks, emitCalls,
                   failedTicks, lateTicks, cancelAt, SchedOthers>>

\* notifyBeforeEmitListeners returns and emitter.Emit(ctx, metrics) is called.
Emit_Call ==
    /\ sched.pc = "notify"
    /\ sched.i > Len(listeners)
    /\ LET next == Tick_Next("notify", ctxDone)
       IN  /\ sched' = [pc |-> next, i |-> 0]
           /\ tickLog' = IF next = "emit" THEN Append(tickLog, <<"emit">>) ELSE tickLog
           /\ emitCalls' = IF next = "emit" THEN emitCalls + 1 ELSE emitCalls
    /\ UNCHANGED <<listeners, ctxDone, tickerC, tickerStopped, fired, ticks,
                   failedTicks, lateTicks, cancelAt, SchedOthers>>

\* Emit returns, in one of its four ways, and the loop goes back to the select.
Emit_Return ==
    /\ sched.pc = "emit"
    /\ \E out \in EmitOutcomes :
          LET control == IF out \in {"written", "failed"}
                         THEN Emit_HandleWriteError(out = "failed") ELSE "return"
          IN  /\ sched' = [pc |-> IF control = "return" THEN Tick_Next("emit", ctxDone)
                                  ELSE "crashed",
                           i |-> 0]
              /\ failedTicks' = IF out = "failed" THEN failedTicks \cup {ticks}
                                ELSE failedTicks
    /\ UNCHANGED <<listeners, ctxDone, tickerC, tickerStopped, fired, ticks, tickLog,
                   emitCalls, lateTicks, cancelAt, SchedOthers>>

SchedInit == listeners = <<>> /\ SchedFresh

InitSched == SchedInit /\ RegIdle /\ CntIdle /\ DistIdle /\ BucketIdle /\ LabelIdle /\ CombIdle
             /\ GaugeIdle /\ FactoryIdle /\ EmitIdle /\ MoreIdle
NextSched ==
    \/ Metrics_AddBeforeEmitListener
    \/ ScheduleMetricsEmit
    \/ Ticker_Fire
    \/ Ctx_Cancel
    \/ Select_Tick
    \/ Select_Done
    \/ Notify_Call
    \/ Notify_SkipNil
    \/ Listener_Return
    \/ Emit_Call
    \/ Emit_Return
SpecSched == InitSched /\ [][NextSched]_vars

\* The scheduler under the fairness its runtime gives: a listener or an Emit that
\* was called returns, the goroutine is scheduled, and a select whose ctx.Done()
\* case is ready again and again takes it at some time (select chooses among
\* the ready cases at random).
SpecSchedFair ==
    /\ SpecSched
    /\ WF_vars(Notify_Call \/ Notify_SkipNil \/ Listener_Return \/ Emit_Call \/ Emit_Return)
    /\ SF_vars(Select_Done)

\* ------------ SpecStop: the scheduler, and a caller that stops the ticker
\*
\* ScheduleMetricsEmit returns the ticker, and its caller may call Stop on it
\* (README: defer ticker.Stop()).  The package ranges over functions, so it is
\* built as Go 1.23 or later, where a timer channel is synchronous: after Stop
\* returns, no tick prepared before the call is received.

\* Mutant: the channel keeps a tick that was sent before Stop (the buffered
\* channel of a ticker before Go 1.23).
Ticker_Stop_Pending_Kept(c) == c

\* The ticks ready on ticker.C after Stop: none.
Ticker_Stop_Pending(c) == 0

\* The caller of ScheduleMetricsEmit calls Stop on the ticker it was given.
Ticker_Stop ==
    /\ sched.pc # "new"
    /\ ~tickerStopped
    /\ tickerStopped' = TRUE
    /\ tickerC' = Ticker_Stop_Pending(tickerC)
    /\ UNCHANGED <<listeners, ctxDone, sched, fired, ticks, tickLog, emitCalls,
                   failedTicks, lateTicks, cancelAt, SchedOthers>>

NextStop ==
    \/ NextSched
    \/ Ticker_Stop
SpecStop == InitSched /\ [][NextStop]_vars

\* ------------------------------- SpecCombine: iterutil.CombineMetrics

\* The instances of the static slice, and what the All() of a facade yields.
StaticElems == {"c1", "c2"}
FacadeContents == {<<>>, <<"d1">>, <<"d2", "d3">>}

\* The consumer's loop body: yield returns false at the element where the body
\* breaks (the stopAfter-th; 0: the body never breaks).
Consumer_Yield(n, stopAfter) == n # stopAfter

\* slices.Values: if !yield(v) { return }
Values_Yield(ok) == ok

\* Concat: if !yield(v) { return }
Concat_Yield(ok) == ok

\* LabelRegistry.All: the Range callback returns yield's result.
All_Yield(ok) == ok

\* Mutant: FlattenSeq goes on after yield returned false.
FlattenSeq_Yield_Ignore(ok) == TRUE

\* FlattenSeq: if !yield(v) { return }
FlattenSeq_Yield(ok) == ok

CombOthers == <<regVars, cntVars, distVars, bucketVars, labelVars, schedVars, gaugeVars,
                factoryVars, emitVars, moreVars>>

\* The consumer ranges over the sequence: Concat starts with its first
\* sequence, slices.Values(static).
Combine_Range ==
    /\ cmIt.pc \in {"idle", "returned"}
    /\ Len(cmPrev) + (IF cmIt.pc = "returned" THEN 1 ELSE 0) < MaxPasses
    /\ cmPrev' = IF cmIt.pc = "returned" THEN Append(cmPrev, cmOut) ELSE cmPrev
    /\ cmOut' = <<>>
    /\ cmIt' = [pc |-> "static", i |-> 1, j |-> 0]
    /\ UNCHANGED <<cmIn, CombOthers>>

\* slices.Values(static) yields its next element through Concat.
Static_Yield ==
    /\ cmIt.pc = "static"
    /\ cmIt.i <= Len(cmIn.static)
    /\ cmOut' = Append(cmOut, cmIn.static[cmIt.i])
    /\ LET ok == Values_Yield(Concat_Yield(Consumer_Yield(Len(cmOut'), cmIn.stopAfter)))
       IN  cmIt' = IF ok THEN [cmIt EXCEPT !.i = @ + 1] ELSE [cmIt EXCEPT !.pc = "returned"]
    /\ UNCHANGED <<cmIn, cmPrev, CombOthers>>

\* The static slice is exhausted: Concat goes on to the flattened facades.
Static_Done ==
    /\ cmIt.pc = "static"
    /\ cmIt.i > Len(cmIn.static)
    /\ cmIt' = [pc |-> "dynamic", i |-> 1, j |-> 1]
    /\ UNCHANGED <<cmIn, cmOut, cmPrev, CombOthers>>

\* The All() of facade i yields its next element through FlattenSeq and Concat.
Dynamic_Yield ==
    /\ cmIt.pc = "dynamic"
    /\ cmIt.i <= Len(cmIn.dynamic)
    /\ cmIt.j <= Len(cmIn.dynamic[cmIt.i])
    /\ cmOut' = Append(cmOut, cmIn.dynamic[cmIt.i][cmIt.j])
    /\ LET ok == All_Yield(FlattenSeq_Yield(Concat_Yield(
                     Consumer_Yield(Len(cmOut'), cmIn.stopAfter))))
       IN  cmIt' = IF ok THEN [cmIt EXCEPT !.j = @ + 1] ELSE [cmIt EXCEPT !.pc = "returned"]
    /\ UNCHANGED <<cmIn, cmPrev, CombOthers>>

\* Facade i is exhausted: Map yields the All() of the next facade.
Dynamic_NextFacade ==
    /\ cmIt.pc = "dynamic"
    /\ cmIt.i <= Len(cmIn.dynamic)
    /\ cmIt.j > Len(cmIn.dynamic[cmIt.i])
    /\ cmIt' = [cmIt EXCEPT !.i = @ + 1, !.j = 1]
    /\ UNCHANGED <<cmIn, cmOut, cmPrev, CombOthers>>

\* The facades are exhausted: the sequence returns.
Dynamic_Done ==
    /\ cmIt.pc = "dynamic"
    /\ cmIt.i > Len(cmIn.dynamic)
    /\ cmIt' = [cmIt EXCEPT !.pc = "returned"]
    /\ UNCHANGED <<cmIn, cmOut, cmPrev, CombOthers>>

CombInit ==
    /\ cmIn \in [static : SeqsUpTo(StaticElems, MaxStatic),
                 dynamic : SeqsUpTo(FacadeContents, MaxFacades),
                 stopAfter : 0..MaxStop]
    /\ CombFresh

InitCombine == CombInit /\ RegIdle /\ CntIdle /\ DistIdle /\ BucketIdle /\ LabelIdle /\ SchedIdle
               /\ GaugeIdle /\ FactoryIdle /\ EmitIdle /\ MoreIdle
NextCombine ==
    \/ Combine_Range
    \/ Static_Yield
    \/ Static_Done
    \/ Dynamic_Yield
    \/ Dynamic_NextFacade
    \/ Dynamic_Done
SpecCombine == InitCombine /\ [][NextCombine]_vars

\* ------------------------------------------- SpecGauge: one static gauge

\* The values Set is called with.
SetValues == {0, 3, -2}

GaugeOthers == <<regVars, cntVars, distVars, bucketVars, labelVars, schedVars, combVars,
                factoryVars, emitVars, moreVars>>

GaugeInFlight(gc) == Cardinality({q \in Procs : gc[q] # <<>>})

\* Caller p calls Set(n).
Gauge_CallSet(p) ==
    /\ gcalls[p] = <<>>
    /\ gstarted < MaxGaugeCalls
    /\ \E n \in SetValues : gcalls' = [gcalls EXCEPT ![p] = <<[pc |-> "store", n |-> n]>>]
    /\ gstarted' = gstarted + 1
    /\ glive' = {}
    /\ gpeak' = Max2(gpeak, GaugeInFlight(gcalls'))
    /\ UNCHANGED <<gauge, gcompleted, glast, GaugeOthers>>

\* Set: the atomic store.
Gauge_Store(p) ==
    /\ gcalls[p] # <<>> /\ gcalls[p][1].pc = "store"
    /\ gauge' = StaticGauge_Set(gauge, gcalls[p][1].n)
    /\ gcalls' = [gcalls EXCEPT ![p][1].pc = "return"]
    /\ UNCHANGED <<gstarted, gcompleted, glive, glast, gpeak, GaugeOthers>>

\* Set returns.
Gauge_Return(p) ==
    /\ gcalls[p] # <<>> /\ gcalls[p][1].pc = "return"
    /\ gcalls' = [gcalls EXCEPT ![p] = <<>>]
    /\ gcompleted' = gcompleted + 1
    /\ glive' = glive \cup {gcalls[p][1].n}
    /\ glast' = gcalls[p][1].n
    /\ UNCHANGED <<gauge, gstarted, gpeak, GaugeOthers>>

InitGauge == GaugeIdle /\ RegIdle /\ CntIdle /\ DistIdle /\ BucketIdle /\ LabelIdle
             /\ SchedIdle /\ CombIdle /\ FactoryIdle /\ EmitIdle /\ MoreIdle
NextGauge ==
    \E p \in Procs :
        \/ Gauge_CallSet(p)
        \/ Gauge_Store(p)
        \/ Gauge_Return(p)
SpecGauge == InitGauge /\ [][NextGauge]_vars

\* ------------------------------- SpecFactory: the factories of the facades

NewDynamicGauge(name, staticLabels, labelKeys) ==
    [Name |-> name, staticLabels |-> staticLabels, labelKeys |-> labelKeys]

NewDynamicDistribution(name, unit, step, numBuckets, staticLabels, labelKeys) ==
    [Name |-> name, Unit |-> unit, Step |-> step, NumBuckets |-> numBuckets,
     staticLabels |-> staticLabels, labelKeys |-> labelKeys]

\* The factory of NewDynamicGauge.
DynamicGauge_factory(d, vals) ==
    NewStaticGauge(d.Name,
        MapsCopy(MapsCopy(EmptyMap, d.staticLabels), labelValuesToMap(d.labelKeys, vals)))

\* The factory of NewDynamicDistribution.
DynamicDistribution_factory(d, vals) ==
    NewStaticDistribution(d.Name, d.Unit, d.Step, d.NumBuckets,
        MapsCopy(MapsCopy(EmptyMap, d.staticLabels), labelValuesToMap(d.labelKeys, vals)))

\* The static labels of the facades examined: any of these keys, set at creation.
StaticLabelKeys == {"env", "status", "method"}
StaticLabelMaps == UNION {[K -> {"prod"}] : K \in SUBSET StaticLabelKeys}
FacadeKinds == {"counter", "gauge", "distribution"}

FactoryInit ==
    /\ fIn \in [kind : FacadeKinds, staticLabels : StaticLabelMaps,
                labelKeys : SeqsUpTo(LabelKeyNames, MaxKeys),
                vals : SeqsUpTo(LabelValues, MaxVals)]
    /\ fOut = <<>>

\* The first Get with vals on the facade's registry: the factory builds the instance.
Factory_Apply ==
    /\ fOut = <<>>
    /\ fOut' = <<CASE fIn.kind = "counter" ->
                        DynamicCounter_factory(
                            NewDynamicCounter("requests", fIn.staticLabels, fIn.labelKeys),
                            fIn.vals)
                   [] fIn.kind = "gauge" ->
                        DynamicGauge_factory(
                            NewDynamicGauge("queue_depth", fIn.staticLabels, fIn.labelKeys),
                            fIn.vals)
                   [] fIn.kind = "distribution" ->
                        DynamicDistribution_factory(
                            NewDynamicDistribution("latency", "ms", DistStep, DistNumBuckets,
                                                   fIn.staticLabels, fIn.labelKeys),
                            fIn.vals)>>
    /\ UNCHANGED <<fIn, regVars, cntVars, distVars, bucketVars, labelVars, schedVars,
                   combVars, gaugeVars, emitVars, moreVars>>

InitFactory == FactoryInit /\ RegIdle /\ CntIdle /\ DistIdle /\ BucketIdle /\ LabelIdle
               /\ SchedIdle /\ CombIdle /\ GaugeIdle /\ EmitIdle /\ MoreIdle
NextFactory == Factory_Apply
SpecFactory == InitFactory /\ [][NextFactory]_vars

\* ------------------- SpecEmit: a Metrics collection and GcpMetricsEmitter.Emit
\*
\* Metrics are created between Emit calls (the lists are appended to without
\* synchronisation); updates run concurrently with Emit.  A distribution is
\* its scalars here, the bucket arrays are in SpecDist, and Update and
\* GetAndClear, which hold the distribution's mutex, are single steps.

\* The emitters examined: configured, or with one field not set.
EmitterConfigs ==
    {[Client |-> TRUE, ProjectID |-> "project", MonitoredResource |-> TRUE],
     [Client |-> FALSE, ProjectID |-> "project", MonitoredResource |-> TRUE],
     [Client |-> TRUE, ProjectID |-> "", MonitoredResource |-> TRUE],
     [Client |-> TRUE, ProjectID |-> "project", MonitoredResource |-> FALSE]}

\* The label values the facades are used with, the value gauges are set to and
\* the value distributions are updated with.
EmitLabelValues == {<<"200">>, <<"404">>}
EmitSetValue == 3
EmitUpdateValue == 4

\* Mutant: the monitored resource is not checked.
Emit_Configured_NoResource(e) == e.Client /\ e.ProjectID # ""

\* The three checks at the head of Emit.
Emit_Configured(e) == e.Client /\ e.ProjectID # "" /\ e.MonitoredResource

\* The instances Emit ranges over, in the order of its three loops.
Emit_Instances(m) == m.Counters \o m.Gauges \o m.Distributions

\* The instances installed in the registries of the facades of the list fs.
RegistryInstances(fs, heap) ==
    UNION {LabelRegistry_All(heap[fs[i]].registry) : i \in 1..Len(fs)}

\* Every live instance of the collection: the static ones and those installed in
\* the registry of a dynamic counter, gauge or distribution.
LiveInstances(m, heap) ==
    {m.Counters[i] : i \in 1..Len(m.Counters)}
    \cup {m.Gauges[i] : i \in 1..Len(m.Gauges)}
    \cup {m.Distributions[i] : i \in 1..Len(m.Distributions)}
    \cup RegistryInstances(m.DynamicCounters, heap)
    \cup RegistryInstances(m.DynamicGauges, heap)
    \cup RegistryInstances(m.DynamicDistributions, heap)

\* The state of every instance: the value of a counter or a gauge, the running
\* state of a distribution.
Values(heap) == [i \in 1..Len(heap) |-> heap[i].m.value]

\* The state c agrees with the time series of list.
AgreesWith(c, list) == \A j \in 1..Len(list) : list[j].value = c[list[j].inst]

\* The states that agree with list, among cs and the state heap.
Candidates(cs, heap, list) == {c \in cs \cup {Values(heap)} : AgreesWith(c, list)}

EmitOthers == <<regVars, cntVars, distVars, bucketVars, labelVars, schedVars, combVars,
                gaugeVars, factoryVars, moreVars>>

\* A creation call with a budget left, while no Emit call is in progress.
CanCreate == em.pc = "idle" /\ emBudget.created < MaxMetrics

\* Mutant: the list is replaced by a list of the new element.
Metrics_add_Assign(list, x) == <<x>>

\* addCounter, addGauge, addDistribution and the three addDynamic...:
\* me.X = append(me.X, x).
Metrics_add(list, x) == Append(list, x)

\* Metrics.Counter / Gauge / Distribution: the instance is created and appended
\* to its list.
Metrics_Static(kind) ==
    /\ CanCreate
    /\ insts' = Append(insts,
          [kind |-> kind,
           m |-> CASE kind = "counter" -> NewStaticCounter("requests", EmptyMap)
                   [] kind = "gauge" -> NewStaticGauge("queue_depth", EmptyMap)
                   [] kind = "distribution" ->
                        NewStaticDistribution("latency", "ms", DistStep, DistNumBuckets,
                                              EmptyMap)])
    /\ metrics' = CASE kind = "counter" -> [metrics EXCEPT !.Counters = Metrics_add(@, Len(insts'))]
                    [] kind = "gauge" -> [metrics EXCEPT !.Gauges = Metrics_add(@, Len(insts'))]
                    [] kind = "distribution" ->
                         [metrics EXCEPT !.Distributions = Metrics_add(@, Len(insts'))]
    /\ emBudget' = [emBudget EXCEPT !.created = @ + 1]
    /\ created' = Append(created, [call |-> kind, static |-> TRUE, elem |-> Len(insts')])
    /\ UNCHANGED <<facades, emitter, em, requests, liveAtStart, visited, outcome, cands,
                   EmitOthers>>

Metrics_Counter == Metrics_Static("counter")
Metrics_Gauge == Metrics_Static("gauge")
Metrics_Distribution == Metrics_Static("distribution")

\* Metrics.CounterWithLabels / GaugeWithLabels / DistributionWithLabels: the
\* facade is created, with an empty registry, and appended to its list.
Metrics_Dynamic(kind) ==
    /\ CanCreate
    /\ facades' = Append(facades, [kind |-> kind, registry |-> EmptyMap])
    /\ metrics' = CASE kind = "counter" ->
                         [metrics EXCEPT !.DynamicCounters = Metrics_add(@, Len(facades'))]
                    [] kind = "gauge" ->
                         [metrics EXCEPT !.DynamicGauges = Metrics_add(@, Len(facades'))]
                    [] kind = "distribution" ->
                         [metrics EXCEPT !.DynamicDistributions = Metrics_add(@, Len(facades'))]
    /\ emBudget' = [emBudget EXCEPT !.created = @ + 1]
    /\ created' = Append(created, [call |-> kind, static |-> FALSE, elem |-> Len(facades')])
    /\ UNCHANGED <<insts, emitter, em, requests, liveAtStart, visited, outcome, cands,
                   EmitOthers>>

Metrics_CounterWithLabels == Metrics_Dynamic("counter")
Metrics_GaugeWithLabels == Metrics_Dynamic("gauge")
Metrics_DistributionWithLabels == Metrics_Dynamic("distribution")

\* Inc, Set or Update on an instance.
Instance_Update(inst) ==
    [inst EXCEPT !.m =
        CASE inst.kind = "counter" -> StaticCounter_Inc(@)
          [] inst.kind = "gauge" -> StaticGauge_Set(@, EmitSetValue)
          [] inst.kind = "distribution" ->
               [@ EXCEPT !.value = Update_Moments(Update_NumSamples(@), EmitUpdateValue)]]

\* A caller updates a static metric.
Static_Update ==
    /\ emBudget.updates < MaxUpdates
    /\ \E id \in 1..Len(insts) :
          /\ \E i \in 1..Len(Emit_Instances(metrics)) : Emit_Instances(metrics)[i] = id
          /\ insts' = [insts EXCEPT ![id] = Instance_Update(@)]
    /\ emBudget' = [emBudget EXCEPT !.updates = @ + 1]
    /\ cands' = IF em.pc = "loops" THEN Candidates(cands, insts', em.list) ELSE cands
    /\ UNCHANGED <<metrics, facades, emitter, em, requests, liveAtStart, visited, outcome, created,
                   EmitOthers>>

\* The instance a facade of the given kind builds for vals.
Facade_factory(kind, vals) ==
    [kind |-> kind,
     m |-> CASE kind = "counter" ->
                 DynamicCounter_factory(NewDynamicCounter("requests", EmptyMap, <<"status">>),
                                        vals)
             [] kind = "gauge" ->
                 DynamicGauge_factory(NewDynamicGauge("queue_depth", EmptyMap, <<"status">>),
                                      vals)
             [] kind = "distribution" ->
                 DynamicDistribution_factory(
                     NewDynamicDistribution("latency", "ms", DistStep, DistNumBuckets,
                                            EmptyMap, <<"status">>),
                     vals)]

\* A caller updates a dynamic metric with label values: Get returns the
\* installed instance or installs a new one, and the instance is updated.
Dynamic_Update ==
    /\ emBudget.updates < MaxUpdates
    /\ \E f \in 1..Len(facades) : \E lv \in EmitLabelValues :
          LET key == labelValuesKey(lv)
              l == SyncMap_Load(facades[f].registry, key)
              s == SyncMap_LoadOrStore(facades[f].registry, key, Len(insts) + 1)
          IN  IF l[2]
              THEN /\ insts' = [insts EXCEPT ![l[1]] = Instance_Update(@)]
                   /\ UNCHANGED facades
              ELSE /\ insts' = Append(insts,
                                      Instance_Update(Facade_factory(facades[f].kind, lv)))
                   /\ facades' = [facades EXCEPT ![f].registry = s[1]]
    /\ emBudget' = [emBudget EXCEPT !.updates = @ + 1]
    /\ cands' = IF em.pc = "loops" THEN Candidates(cands, insts', em.list) ELSE cands
    /\ UNCHANGED <<metrics, emitter, em, requests, liveAtStart, visited, outcome, created,
                   EmitOthers>>

\* Emit is called: it declines when the emitter is not configured, and
\* otherwise starts on its loops with an empty timeSeriesList.
Emit_Begin ==
    /\ em.pc = "idle"
    /\ emBudget.emits < MaxEmits
    /\ emBudget' = [emBudget EXCEPT !.emits = @ + 1]
    /\ liveAtStart' = LiveInstances(metrics, facades)
    /\ visited' = {}
    /\ IF Emit_Configured(emitter)
       THEN em' = [pc |-> "loops", k |-> 1, list |-> <<>>] /\ outcome' = ""
            /\ cands' = {Values(insts)}
       ELSE em' = IdleEmit /\ outcome' = "declined" /\ cands' = {}
    /\ UNCHANGED <<metrics, insts, facades, emitter, requests, created, EmitOthers>>

\* The range of the loop that is at position k of Emit_Instances.
InCounters(k) == k <= Len(metrics.Counters)
InGauges(k) == ~InCounters(k) /\ k <= Len(metrics.Counters) + Len(metrics.Gauges)
InDistributions(k) == ~InCounters(k) /\ ~InGauges(k) /\ k <= Len(Emit_Instances(metrics))

\* for _, counter := range metrics.Counters: the value is read and a time
\* series appended.
Emit_Counter ==
    /\ em.pc = "loops" /\ InCounters(em.k)
    /\ LET id == Emit_Instances(metrics)[em.k]
       IN  /\ em' = [em EXCEPT !.k = @ + 1,
                               !.list = Append(@, [inst |-> id,
                                                   value |-> StaticCounter_Value(insts[id].m)])]
           /\ visited' = visited \cup {id}
           /\ cands' = Candidates(cands, insts, em'.list)
    /\ UNCHANGED <<metrics, insts, facades, emitter, requests, emBudget, liveAtStart,
                   outcome, created, EmitOthers>>

\* for _, gauge := range metrics.Gauges: the value is read and a time series
\* appended.
Emit_Gauge ==
    /\ em.pc = "loops" /\ InGauges(em.k)
    /\ LET id == Emit_Instances(metrics)[em.k]
       IN  /\ em' = [em EXCEPT !.k = @ + 1,
                               !.list = Append(@, [inst |-> id,
                                                   value |-> StaticGauge_Value(insts[id].m)])]
           /\ visited' = visited \cup {id}
           /\ cands' = Candidates(cands, insts, em'.list)
    /\ UNCHANGED <<metrics, insts, facades, emitter, requests, emBudget, liveAtStart,
                   outcome, created, EmitOthers>>

\* Mutant: a snapshot without samples is exported too.
Emit_SkipEmpty_Never(value) == FALSE

\* if value.NumSamples == 0 { continue }
Emit_SkipEmpty(value) == value.NumSamples = 0

\* for _, dist := range metrics.Distributions: GetAndClear, and a time series
\* is appended unless the snapshot has no samples.
Emit_Distribution ==
    /\ em.pc = "loops" /\ InDistributions(em.k)
    /\ LET id == Emit_Instances(metrics)[em.k]
           value == insts[id].m.value
       IN  /\ insts' = [insts EXCEPT ![id].m.value = GetAndClear_ClearValue(@)]
           /\ em' = [em EXCEPT !.k = @ + 1,
                               !.list = IF Emit_SkipEmpty(value) THEN @
                                        ELSE Append(@, [inst |-> id, value |-> value])]
           /\ visited' = visited \cup {id}
           /\ cands' = Candidates(cands, insts', em'.list)
    /\ UNCHANGED <<metrics, facades, emitter, requests, emBudget, liveAtStart, outcome, created,
                   EmitOthers>>

\* After the loops: Emit returns when there is nothing to send, and otherwise
\* sends the request, which succeeds or fails, and returns.
Emit_Write ==
    /\ em.pc = "loops" /\ em.k > Len(Emit_Instances(metrics))
    /\ IF em.list = <<>>
       THEN outcome' = "empty" /\ UNCHANGED requests
       ELSE /\ requests' = Append(requests, em.list)
            /\ \E err \in BOOLEAN :
                  outcome' = IF Emit_HandleWriteError(err) = "return" /\ err THEN "failed"
                             ELSE "written"
    /\ em' = IdleEmit
    /\ UNCHANGED <<metrics, insts, facades, emitter, emBudget, liveAtStart, visited, created,
                   cands, EmitOthers>>

EmitInit == emitter \in EmitterConfigs /\ EmitFresh

InitEmit == EmitInit /\ RegIdle /\ CntIdle /\ DistIdle /\ BucketIdle /\ LabelIdle
            /\ SchedIdle /\ CombIdle /\ GaugeIdle /\ FactoryIdle /\ MoreIdle
NextEmit ==
    \/ Metrics_Counter
    \/ Metrics_Gauge
    \/ Metrics_Distribution
    \/ Metrics_CounterWithLabels
    \/ Metrics_GaugeWithLabels
    \/ Metrics_DistributionWithLabels
    \/ Static_Update
    \/ Dynamic_Update
    \/ Emit_Begin
    \/ Emit_Counter
    \/ Emit_Gauge
    \/ Emit_Distribution
    \/ Emit_Write
SpecEmit == InitEmit /\ [][NextEmit]_vars

\* -------- SpecStatic: one call on a static metric, with and without label values
\*
\* Inc, Add, Set and Update take a variadic labelValues; the state of a call is
\* the instance and, for a distribution, the backing array of its buckets.

\* The variables of every other specification of the module.
CoreVars == <<regVars, cntVars, distVars, bucketVars, labelVars, schedVars, combVars,
              gaugeVars, factoryVars, emitVars>>
CoreIdle == RegIdle /\ CntIdle /\ DistIdle /\ BucketIdle /\ LabelIdle /\ SchedIdle
            /\ CombIdle /\ GaugeIdle /\ FactoryIdle /\ EmitIdle

\* The operations of the static metrics and the metric each one is defined on.
StaticOps == {"Inc", "Add", "Set", "Update"}
StaticArgs == {2, -1, 4}
StaticLabels == {EmptyMap, [k \in {"env"} |-> "prod"]}

\* The static metric an operation is called on, as its constructor returns it.
NewStaticFor(op, labels) ==
    [m |-> CASE op \in {"Inc", "Add"} -> NewStaticCounter("requests", labels)
             [] op = "Set" -> NewStaticGauge("queue_depth", labels)
             [] op = "Update" ->
                  NewStaticDistribution("latency", "ms", DistStep, DistNumBuckets, labels),
     heap |-> IF op = "Update" THEN <<MakeInt64s(DistNumBuckets + 2)>> ELSE <<>>]

\* StaticDistribution.Update as one step, under its mutex.
StaticDistribution_Update(d, heap, value) ==
    [m |-> [d EXCEPT !.value = Update_Moments(Update_NumSamples(@), value)],
     heap |-> Update_Bucket(d, heap, value)]

\* Mutant: a call with label values is directed at another instance and leaves
\* this one alone.
Static_Call_Labelled(st, op, n, labelValues) ==
    IF labelValues # <<>> THEN st
    ELSE CASE op = "Inc" -> [st EXCEPT !.m = StaticCounter_Inc(@)]
           [] op = "Add" -> [st EXCEPT !.m = StaticCounter_Add(@, n)]
           [] op = "Set" -> [st EXCEPT !.m = StaticGauge_Set(@, n)]
           [] op = "Update" -> StaticDistribution_Update(st.m, st.heap, n)

\* Inc(labelValues...), Add(n, labelValues...), Set(n, labelValues...) and
\* Update(value, labelValues...) of the static metrics: no body reads labelValues.
Static_Call(st, op, n, labelValues) ==
    CASE op = "Inc" -> [st EXCEPT !.m = StaticCounter_Inc(@)]
      [] op = "Add" -> [st EXCEPT !.m = StaticCounter_Add(@, n)]
      [] op = "Set" -> [st EXCEPT !.m = StaticGauge_Set(@, n)]
      [] op = "Update" -> StaticDistribution_Update(st.m, st.heap, n)

\* The metric after `prior` earlier calls of op, made without label values.
RECURSIVE StaticAfter(_, _, _, _)
StaticAfter(op, labels, n, prior) ==
    IF prior = 0 THEN NewStaticFor(op, labels)
    ELSE Static_Call(StaticAfter(op, labels, n, prior - 1), op, n, <<>>)

StaticInit ==
    /\ stIn \in [op : StaticOps, labels : StaticLabels, n : StaticArgs, prior : 0..1,
                  labelValues : SeqsUpTo(LabelValues, MaxVals)]
    /\ stOut = <<>>

\* The call is made with the label values on the metric, and without label
\* values on a metric in the same state.
Static_Apply ==
    /\ stOut = <<>>
    /\ LET st == StaticAfter(stIn.op, stIn.labels, stIn.n, stIn.prior)
       IN  stOut' = <<Static_Call(st, stIn.op, stIn.n, stIn.labelValues),
                      Static_Call(st, stIn.op, stIn.n, <<>>)>>
    /\ UNCHANGED <<stIn, CoreVars, walkVars, totalVars, monoVars, lateVars>>

InitStatic == StaticInit /\ CoreIdle /\ WalkIdle /\ TotalIdle /\ MonoIdle /\ LateIdle
NextStatic == Static_Apply
SpecStatic == InitStatic /\ [][NextStatic]_vars

\* ------------- SpecWalk: the sequence of LabelRegistry.All, concurrent with Get
\*
\* All returns a function that calls registry.Range with the consumer's yield.
\* sync.Map.Range visits no key more than once and visits every key that is
\* present during the whole call; a key stored during the call may or may not
\* be visited.  Range returns when yield returns false.

WalkOthers == <<regVars, cntVars, distVars, bucketVars, labelVars, schedVars, combVars,
                gaugeVars, factoryVars, emitVars, staticVars, totalVars, monoVars,
                lateVars>>

\* Mutant: the sequence keeps its position, and a second iteration resumes after
\* the keys the first one visited.
All_Call_Resume(visitedBefore) == visitedBefore

\* return func(yield) { lr.registry.Range(...) }: each call of the sequence
\* starts a Range of its own, with no key visited.
All_Call(visitedBefore) == {}

\* The keys Range may visit next: those stored and not yet visited.
Range_Candidates(m, seen) == DOMAIN m \ seen

\* Range may return: no key that was present when it began is left to visit.
Range_Exhausted(m, seen, start) ==
    \A k \in DOMAIN m : m[k] \in start => k \in seen

\* The consumer ranges over the sequence.
Walk_Begin ==
    /\ walk.pc = "idle"
    /\ walks < MaxWalks
    /\ walks' = walks + 1
    /\ walk' = [pc |-> "range", keys |-> All_Call(walk.keys)]
    /\ walkOut' = <<>>
    /\ walkStart' = LabelRegistry_All(registry)
    /\ walkEnd' = ""
    /\ UNCHANGED WalkOthers

\* Range calls yield(value.(T)) for a key; the consumer goes on or breaks.
Walk_Yield ==
    /\ walk.pc = "range"
    /\ \E k \in Range_Candidates(registry, walk.keys) : \E ok \in BOOLEAN :
          /\ walkOut' = Append(walkOut, registry[k])
          /\ IF ok
             THEN walk' = [walk EXCEPT !.keys = @ \cup {k}] /\ UNCHANGED walkEnd
             ELSE walk' = [pc |-> "idle", keys |-> walk.keys \cup {k}]
                  /\ walkEnd' = "stopped"
    /\ UNCHANGED <<walks, walkStart, WalkOthers>>

\* Range returns after the last key.
Walk_End ==
    /\ walk.pc = "range"
    /\ Range_Exhausted(registry, walk.keys, walkStart)
    /\ walk' = [walk EXCEPT !.pc = "idle"]
    /\ walkEnd' = "exhausted"
    /\ UNCHANGED <<walks, walkOut, walkStart, WalkOthers>>

\* A caller calls Inc with label values.
Walk_CallInc(p) == started < MaxWalkCalls /\ Dyn_CallInc(p)

InitWalk == RegInit /\ CntIdle /\ DistIdle /\ BucketIdle /\ LabelIdle /\ RestIdle
NextWalk ==
    \/ \E p \in Procs :
          \/ Walk_CallInc(p)
          \/ Get_Factory(p)
          \/ Get_LoadOrStore(p)
          \/ Dyn_Inc(p)
    \/ Walk_Begin
    \/ Walk_Yield
    \/ Walk_End
SpecWalk == InitWalk /\ [][NextWalk]_vars

\* ---------------------- SpecTotal: one operation of the core, and how it ends
\*
\* An operation returns or panics.  The constructor of a distribution checks
\* neither step nor numBuckets; it panics only when make is given a negative
\* length.

\* The steps and bucket counts given to the constructor, the operations, and
\* the arguments of Add and Set.
TotalSteps == {-2, -1, 0, 1, 2}
TotalNumBuckets == {-3, -2, -1, 0, 1, 2}
TotalOps == {"Update", "GetAndClear", "BucketBounds", "Inc", "Add", "Value", "Set",
             "GaugeValue", "Get"}

\* make([]T, n) panics when n is negative.
Make_Panics(n) == n < 0
\* x / y on integers panics when y is zero.
Divide_Panics(y) == y = 0
\* s[i] panics when i is not an index of s.
Index_Panics(arr, i) == i \notin DOMAIN arr

\* NewStaticDistribution returns: make([]int64, numBuckets+2) does not panic.
NewStaticDistribution_Accepts(step, numBuckets) == ~Make_Panics(numBuckets + 2)

\* How Update(value) ends on the distribution d with the bucket array arr.
Update_Outcome(d, arr, value) ==
    IF Divide_Panics(d.Step) THEN "panic: integer divide by zero"
    ELSE IF Index_Panics(arr, bucketForValue(d, value)) THEN "panic: index out of range"
    ELSE "returns"

\* How BucketBounds() ends: make([]float64, d.NumBuckets+1) and a loop.
BucketBounds_Outcome(d) ==
    IF Make_Panics(d.NumBuckets + 1) THEN "panic: makeslice: len out of range"
    ELSE "returns"

\* How GetAndClear() ends: make with the length of the existing slice, copy, clear.
GetAndClear_Outcome(d, arr) ==
    IF Make_Panics(Cardinality(DOMAIN arr)) THEN "panic: makeslice: len out of range"
    ELSE "returns"

\* How the operation op ends.
Total_Outcome(in) ==
    LET d == NewStaticDistribution("latency", "ms", in.step, in.numBuckets, EmptyMap)
        arr == MakeInt64s(in.numBuckets + 2)
        c == NewStaticCounter("requests", EmptyMap)
        g == NewStaticGauge("queue_depth", EmptyMap)
    IN  CASE in.op = "Update" -> Update_Outcome(d, arr, in.value)
          [] in.op = "GetAndClear" -> GetAndClear_Outcome(d, arr)
          [] in.op = "BucketBounds" -> BucketBounds_Outcome(d)
          [] in.op = "Inc" ->
               IF StaticCounter_Inc(c).value \in IntRange THEN "returns" ELSE "panic"
          [] in.op = "Add" ->
               IF StaticCounter_Add(c, in.value).value \in IntRange THEN "returns"
               ELSE "panic"
          [] in.op = "Value" ->
               IF StaticCounter_Value(c) \in IntRange THEN "returns" ELSE "panic"
          [] in.op = "Set" ->
               IF StaticGauge_Set(g, in.value).value \in IntRange THEN "returns"
               ELSE "panic"
          [] in.op = "GaugeValue" ->
               IF StaticGauge_Value(g) \in IntRange THEN "returns" ELSE "panic"
          [] in.op = "Get" ->
               IF SyncMap_LoadOrStore(EmptyMap, labelValuesKey(in.labelValues), 1)[2] = 1
               THEN "returns" ELSE "panic"

TotalInit ==
    /\ tIn \in {in \in [op : TotalOps, step : TotalSteps, numBuckets : TotalNumBuckets,
                          value : IntRange, labelValues : CallLabelValues] :
                    NewStaticDistribution_Accepts(in.step, in.numBuckets)}
    /\ tOut = <<>>

\* The operation is called on a new metric.
Total_Apply ==
    /\ tOut = <<>>
    /\ tOut' = <<Total_Outcome(tIn)>>
    /\ UNCHANGED <<tIn, CoreVars, staticVars, walkVars, monoVars, lateVars>>

InitTotal == TotalInit /\ CoreIdle /\ StaticIdle /\ WalkIdle /\ MonoIdle /\ LateIdle
NextTotal == Total_Apply
SpecTotal == InitTotal /\ [][NextTotal]_vars

\* --------- SpecMono: a static counter, its writers and the readers of Value()
\*
\* The writers call Inc and Add with deltas that are not negative; Value() is
\* one atomic load.

\* The deltas Add is called with.
NonNegativeDeltas == {0, 2}

\* A caller calls Add with a delta that is not negative.
Mono_CallAdd(p) ==
    /\ \E n \in NonNegativeDeltas : CounterCall(p, "Add", n)
    /\ UNCHANGED <<creads, regVars, distVars, bucketVars, labelVars, schedVars, combVars,
                   gaugeVars, factoryVars, emitVars, staticVars, walkVars, totalVars,
                   lateVars>>

\* A caller calls Inc.
Mono_CallInc(p) ==
    /\ CounterCall(p, "Inc", 1)
    /\ UNCHANGED <<creads, regVars, distVars, bucketVars, labelVars, schedVars, combVars,
                   gaugeVars, factoryVars, emitVars, staticVars, walkVars, totalVars,
                   lateVars>>

\* StaticCounter.Value: the atomic load, and the return.
Counter_Value ==
    /\ Len(creads) < MaxReads
    /\ creads' = Append(creads, StaticCounter_Value(counter))
    /\ UNCHANGED <<cntVars, regVars, distVars, bucketVars, labelVars, schedVars, combVars,
                   gaugeVars, factoryVars, emitVars, staticVars, walkVars, totalVars,
                   lateVars>>

InitMono == InitCounter
NextMono ==
    \/ \E p \in Procs :
          \/ Mono_CallInc(p)
          \/ Mono_CallAdd(p)
          \/ Counter_Inc(p)
          \/ Counter_Add(p)
    \/ Counter_Value
SpecMono == InitMono /\ [][NextMono]_vars

\* ----- SpecLocks: Update and GetAndClear on the distributions of several
\* label combinations
\*
\* A dynamic distribution holds one StaticDistribution per label combination;
\* mu is a field of the StaticDistribution.  Each call locks, runs its body and
\* unlocks on return.

LockDists == 1..NumDists
LockOps == {"Update", "GetAndClear"}

\* The variables of the specifications of single operations.
EarlyVars == <<staticVars, walkVars, totalVars, monoVars>>
EarlyIdle == StaticIdle /\ WalkIdle /\ TotalIdle /\ MonoIdle

\* Mutant: one mutex serves every distribution.
Mutex_Of_Shared(d) == Min2(d, 1)

\* d.mu of the distribution d: a mutex of its own.
Mutex_Of(d) == d

\* StaticDistribution.GetAndClear as one step, under its mutex; the copy leaves
\* with the caller.
StaticDistribution_GetAndClear(d, heap) ==
    LET c == GetAndClear_Copy(d.value, heap)
    IN  [m |-> [d EXCEPT !.value = GetAndClear_ClearValue(@)],
         heap |-> SubSeq(ClearSlice(c[2], d.value.Buckets), 1, Len(heap)),
         result |-> c[1]]

LocksInit ==
    /\ ldists = [d \in LockDists |-> NewStaticFor("Update", EmptyMap)]
    /\ lmu = [d \in LockDists |-> 0]
    /\ lcalls = [p \in Procs |-> IdleLockCaller]
    /\ lstarted = 0
    /\ lorder = [d \in LockDists |-> <<>>]

\* Caller p calls Update or GetAndClear on the distribution of a label
\* combination.
Locks_Call(p) ==
    /\ lcalls[p].pc = "idle"
    /\ lstarted < MaxLockCalls
    /\ lstarted' = lstarted + 1
    /\ \E d \in LockDists : \E op \in LockOps :
          lcalls' = [lcalls EXCEPT ![p] = [pc |-> "lock", d |-> d, op |-> op]]
    /\ UNCHANGED <<ldists, lmu, lorder, CoreVars, EarlyVars, valueVars, seriesVars,
                   appendVars>>

\* d.mu.Lock()
Locks_Lock(p) ==
    /\ lcalls[p].pc = "lock"
    /\ Mutex_CanLock(lmu[Mutex_Of(lcalls[p].d)])
    /\ lmu' = [lmu EXCEPT ![Mutex_Of(lcalls[p].d)] = p]
    /\ lcalls' = [lcalls EXCEPT ![p].pc = "section"]
    /\ UNCHANGED <<ldists, lstarted, lorder, CoreVars, EarlyVars, valueVars, seriesVars,
                   appendVars>>

\* The body of Update or of GetAndClear.
Locks_Section(p) ==
    /\ lcalls[p].pc = "section"
    /\ LET d == lcalls[p].d
           st == ldists[d]
       IN  IF lcalls[p].op = "Update"
           THEN LET u == StaticDistribution_Update(st.m, st.heap, EmitUpdateValue)
                IN  /\ ldists' = [ldists EXCEPT ![d] = u]
                    /\ lorder' = [lorder EXCEPT ![d] =
                                     Append(@, [op |-> "Update", n |-> u.m.value.NumSamples])]
           ELSE LET g == StaticDistribution_GetAndClear(st.m, st.heap)
                IN  /\ ldists' = [ldists EXCEPT ![d] = [m |-> g.m, heap |-> g.heap]]
                    /\ lorder' = [lorder EXCEPT ![d] =
                                     Append(@, [op |-> "GetAndClear", n |-> g.result.NumSamples])]
    /\ lcalls' = [lcalls EXCEPT ![p].pc = "unlock"]
    /\ UNCHANGED <<lmu, lstarted, CoreVars, EarlyVars, valueVars, seriesVars, appendVars>>

\* The deferred d.mu.Unlock(), and the return.
Locks_Unlock(p) ==
    /\ lcalls[p].pc = "unlock"
    /\ lmu' = [lmu EXCEPT ![Mutex_Of(lcalls[p].d)] = Mutex_Unlock(@)]
    /\ lcalls' = [lcalls EXCEPT ![p] = IdleLockCaller]
    /\ UNCHANGED <<ldists, lstarted, lorder, CoreVars, EarlyVars, valueVars, seriesVars,
                   appendVars>>

InitLocks == LocksInit /\ CoreIdle /\ EarlyIdle /\ ValueIdle /\ SeriesIdle /\ AppendIdle
NextLocks ==
    \E p \in Procs :
        \/ Locks_Call(p)
        \/ Locks_Lock(p)
        \/ Locks_Section(p)
        \/ Locks_Unlock(p)
SpecLocks == InitLocks /\ [][NextLocks]_vars

\* ----- SpecProgress: callers of the distribution, the counter, the gauge and
\* the registry, all at once, under fair scheduling
\*
\* Every goroutine that can take a step takes one at some time, and
\* sync.Mutex hands the lock to a caller that keeps waiting (its starvation
\* mode), so a Lock that can be granted again and again is granted.

\* The calls started on all the metrics together.
ProgStarted == started + cstarted + dstarted + gstarted

\* Caller p is inside a call on the distribution, the counter, the gauge, the
\* registry.
InDistCall(p) == dcalls[p].pc # "idle"
InCounterCall(p) == ccalls[p] # <<>>
InGaugeCall(p) == gcalls[p] # <<>>
InGetCall(p) == callers[p].pc # "idle"
InCall(p) == InDistCall(p) \/ InCounterCall(p) \/ InGaugeCall(p) \/ InGetCall(p)

\* A caller makes one call at a time.
CanCall(p) == ProgStarted < MaxProgCalls /\ ~InCall(p)

\* The calls: Update(4), GetAndClear(), Inc() on the static counter, Set(3) on
\* the gauge, and Inc("200", "GET") on the dynamic counter.
Prog_CallUpdate(p) ==
    /\ CanCall(p)
    /\ Dist_CallUpdate(p)
    /\ dcalls'[p].value = EmitUpdateValue
Prog_CallGetAndClear(p) == CanCall(p) /\ Dist_CallGetAndClear(p)
Prog_CallInc(p) == CanCall(p) /\ Counter_CallInc(p)
Prog_CallSet(p) ==
    /\ CanCall(p)
    /\ Gauge_CallSet(p)
    /\ gcalls'[p][1].n = EmitSetValue
Prog_CallGet(p) ==
    /\ CanCall(p)
    /\ Dyn_CallInc(p)
    /\ callers'[p].labelValues = <<"200", "GET">>

\* d.mu.Lock() of the call of caller p.
Prog_Lock(p) == Dist_UpdateLock(p) \/ Dist_GetAndClearLock(p)

\* A step of a call of caller p that is in progress.
Prog_Step(p) ==
    \/ Dist_UpdateBucket(p)
    \/ Dist_UpdateNumSamples(p)
    \/ Dist_UpdateMoments(p)
    \/ Dist_UpdateUnlock(p)
    \/ Dist_GetAndClearCopy(p)
    \/ Dist_GetAndClearClear(p)
    \/ Dist_GetAndClearUnlock(p)
    \/ Counter_Inc(p)
    \/ Gauge_Store(p)
    \/ Gauge_Return(p)
    \/ Get_Factory(p)
    \/ Get_LoadOrStore(p)
    \/ Dyn_Inc(p)

InitProgress == DistInit /\ RegInit /\ CntIdle /\ BucketIdle /\ LabelIdle /\ RestIdle
NextProgress ==
    \E p \in Procs :
        \/ Prog_CallUpdate(p)
        \/ Prog_CallGetAndClear(p)
        \/ Prog_CallInc(p)
        \/ Prog_CallSet(p)
        \/ Prog_CallGet(p)
        \/ Prog_Lock(p)
        \/ Prog_Step(p)
SpecProgress ==
    /\ InitProgress /\ [][NextProgress]_vars
    /\ \A p \in Procs : WF_vars(Prog_Step(p)) /\ SF_vars(Prog_Lock(p))

\* ----- SpecValue: Inc and Value on the dynamic counter
\*
\* Value(labelValues...) is dc.registry.Get(labelValues).Value(): the same Get
\* as Inc and Add, then the atomic load.

\* The sum of the deltas applied with the sequences of the set S.
RECURSIVE SumApplied(_, _)
SumApplied(app, S) ==
    IF S = {} THEN 0
    ELSE LET lv == CHOOSE x \in S : TRUE IN app[lv] + SumApplied(app, S \ {lv})

\* Caller p calls Value(labelValues...).
Dyn_CallValue(p) == Get_Load(p, "Value", 0)

\* Value: the instance Get returned is read, and the call returns.
Dyn_Value(p) ==
    /\ callers[p].pc = "apply" /\ callers[p].op = "Value"
    /\ vreads' = Append(vreads,
          [labelValues |-> callers[p].labelValues,
           value |-> StaticCounter_Value(counters[callers[p].actual]),
           built |-> callers[p].newValue,
           after |-> LabelRegistry_All(registry),
           updated |-> {lv \in DOMAIN applied : applied[lv] # 0},
           keySum |-> SumApplied(applied,
                         {lv \in DOMAIN applied :
                             labelValuesKey(lv) = labelValuesKey(callers[p].labelValues)})])
    /\ callers' = [callers EXCEPT ![p] = IdleCaller]
    /\ UNCHANGED <<dc, registry, counters, started, factoryCalls, returned, applied>>
    /\ UNCHANGED <<cntVars, distVars, bucketVars, labelVars, schedVars, combVars, gaugeVars,
                   factoryVars, emitVars, EarlyVars, lockVars, seriesVars, appendVars>>

InitValue == Init
NextValue ==
    \E p \in Procs :
        \/ Dyn_CallInc(p)
        \/ Dyn_CallValue(p)
        \/ Get_Factory(p)
        \/ Get_LoadOrStore(p)
        \/ Dyn_Inc(p)
        \/ Dyn_Value(p)
SpecValue == InitValue /\ [][NextValue]_vars

\* ----- SpecSeries: the instances of a dynamic counter after two Get calls
\*
\* The counter is created with some label keys and called with two label value
\* lists, one call after the other; the lists may be shorter or longer than the
\* label keys.

\* LabelRegistry.Get, run from its call to its return with no other caller:
\* the registry and the heap of instances after it, and the instance returned.
LabelRegistry_Get(d, m, heap, labelValues) ==
    LET key == labelValuesKey(labelValues)
        l == SyncMap_Load(m, key)
    IN  IF Get_Found(l)
        THEN [registry |-> m, counters |-> heap, actual |-> l[1]]
        ELSE LET built == Append(heap, DynamicCounter_factory(d, labelValues))
                 st == SyncMap_LoadOrStore(m, key, Len(built))
             IN  [registry |-> st[1], counters |-> built,
                  actual |-> Get_Return(Len(built), st[2])]

SeriesInit ==
    /\ sIn \in [labelKeys : SeqsUpTo(LabelKeyNames, MaxKeys),
                first : SeqsUpTo(LabelValues, MaxVals),
                second : SeqsUpTo(LabelValues, MaxVals)]
    /\ sOut = <<>>

\* Inc(first...) and then Inc(second...) on a new dynamic counter.
Series_Apply ==
    /\ sOut = <<>>
    /\ LET d == NewDynamicCounter("requests", EmptyMap, sIn.labelKeys)
           one == LabelRegistry_Get(d, EmptyMap, <<>>, sIn.first)
           two == LabelRegistry_Get(d, one.registry, one.counters, sIn.second)
       IN  sOut' = <<[registry |-> two.registry,
                      counters |-> two.counters,
                      returned |-> <<one.actual, two.actual>>]>>
    /\ UNCHANGED <<sIn, CoreVars, EarlyVars, lockVars, valueVars, appendVars>>

InitSeries == SeriesInit /\ CoreIdle /\ EarlyIdle /\ LockIdle /\ ValueIdle /\ AppendIdle
NextSeries == Series_Apply
SpecSeries == InitSeries /\ [][NextSeries]_vars

\* ----- SpecAppend: concurrent creation and registration on one Metrics
\*
\* Counter, Gauge, Distribution, the WithLabels variants and
\* AddBeforeEmitListener end in me.X = append(me.X, x), with no lock: the
\* statement reads the slice me.X, builds the longer slice and assigns it. Two
\* calls on one list at the same time are a data race; its outcomes are those
\* of the reads and the writes of the slice in any order.

\* The lists examined: one of metrics and the listeners.
AppendLists == {"Counters", "BeforeEmitListeners"}

AppendOthers == <<CoreVars, EarlyVars, lockVars, valueVars, seriesVars>>

AppendInit ==
    /\ alists = [l \in AppendLists |-> <<>>]
    /\ acalls = [p \in Procs |-> IdleAppendCaller]
    /\ astarted = 0
    /\ areturned = [l \in AppendLists |-> {}]
    /\ araced = {}

\* Caller p calls Counter(...) or AddBeforeEmitListener(...): the new element is
\* made.
Append_Call(p) ==
    /\ acalls[p].pc = "idle"
    /\ astarted < MaxAppendCalls
    /\ astarted' = astarted + 1
    /\ \E l \in AppendLists :
          acalls' = [acalls EXCEPT ![p] = [pc |-> "read", list |-> l, x |-> astarted',
                                           read |-> <<>>]]
    /\ UNCHANGED <<alists, areturned, araced, AppendOthers>>

\* append(me.X, x) reads me.X.
Append_Read(p) ==
    /\ acalls[p].pc = "read"
    /\ acalls' = [acalls EXCEPT ![p].pc = "write", ![p].read = alists[acalls[p].list]]
    /\ araced' = IF \E q \in Procs \ {p} :
                        acalls[q].pc = "write" /\ acalls[q].list = acalls[p].list
                 THEN araced \cup {acalls[p].list}
                 ELSE araced
    /\ UNCHANGED <<alists, astarted, areturned, AppendOthers>>

\* me.X = the appended slice, and the call returns.
Append_Write(p) ==
    /\ acalls[p].pc = "write"
    /\ alists' = [alists EXCEPT ![acalls[p].list] = Metrics_add(acalls[p].read, acalls[p].x)]
    /\ areturned' = [areturned EXCEPT ![acalls[p].list] = @ \cup {acalls[p].x}]
    /\ acalls' = [acalls EXCEPT ![p] = IdleAppendCaller]
    /\ UNCHANGED <<astarted, araced, AppendOthers>>

InitAppend == AppendInit /\ CoreIdle /\ EarlyIdle /\ LockIdle /\ ValueIdle /\ SeriesIdle
NextAppend ==
    \E p \in Procs :
        \/ Append_Call(p)
        \/ Append_Read(p)
        \/ Append_Write(p)
SpecAppend == InitAppend /\ [][NextAppend]_vars

\* ------------------------------------------------------------------ claims

\* Every call on the dynamic counter has returned.
DynQuiescent == \A p \in Procs : callers[p].pc = "idle"

\* C1: for one registry and one label value sequence, every Get call returns the
\* same instance, also when callers race on the first use and the factory runs
\* more than once.
C1_OneInstancePerSequence ==
    \A r1 \in returned : \A r2 \in returned : r1[1] = r2[1] => r1[2] = r2[2]

\* C1 witness: two callers raced on the first use of one label value sequence, each
\* built an instance, and Get returned the same instance to both.
C1_Witness ==
    \E p \in Procs : \E q \in Procs :
        /\ callers[p].pc = "apply" /\ callers[q].pc = "apply"
        /\ callers[p].labelValues = callers[q].labelValues
        /\ callers[p].newValue # 0 /\ callers[q].newValue # 0
        /\ callers[p].newValue # callers[q].newValue
        /\ callers[p].actual = callers[q].actual
        /\ <<callers[p].labelValues, callers[p].actual>> \in returned

\* C2: an instance the factory built that is not the installed one is never
\* incremented, and when all the calls made with one label value sequence have
\* completed (no other sequence having been used), Value for that sequence is
\* the sum of their deltas: G*K for G callers of K Inc calls each.
C2_NoIncrementLost ==
    /\ \A i \in 1..Len(counters) :
          i \notin LabelRegistry_All(registry) => StaticCounter_Value(counters[i]) = 0
    /\ \A lv \in CallLabelValues :
          (DynQuiescent /\ DOMAIN applied = {lv}) =>
              DynamicCounter_Value(registry, counters, lv) = Wrap(applied[lv])

\* C2 witness: the callers raced to create the instance, one built instance was
\* discarded, and three Inc calls with the same label values have completed.
C2_Witness ==
    /\ DynQuiescent
    /\ DOMAIN applied = {<<"200", "GET">>}
    /\ applied[<<"200", "GET">>] = 3
    /\ factoryCalls = <<<<"200", "GET">>, <<"200", "GET">>>>
    /\ DynamicCounter_Value(registry, counters, <<"200", "GET">>) = 3

\* C10: when all the Inc/Add calls have completed, All() yields exactly one
\* instance per distinct label value sequence that was used, and the value of
\* each is the sum of the deltas applied with that sequence.
C10_OneInstancePerUsedSequence ==
    DynQuiescent =>
        /\ Cardinality(LabelRegistry_All(registry)) = Cardinality(DOMAIN applied)
        /\ \A lv \in DOMAIN applied :
              /\ labelValuesKey(lv) \in DOMAIN registry
              /\ StaticCounter_Value(counters[registry[labelValuesKey(lv)]]) = Wrap(applied[lv])

\* The sum of the deltas applied with the sequences of the set S.
RECURSIVE AppliedSum(_)
AppliedSum(S) ==
    IF S = {} THEN 0 ELSE LET lv == CHOOSE x \in S : TRUE IN applied[lv] + AppliedSum(S \ {lv})

\* What holds of the code in place of C10: one instance per distinct registry key,
\* holding the sum of the deltas of all the sequences that join to that key.
OneInstancePerUsedKey ==
    DynQuiescent =>
        /\ DOMAIN registry = {labelValuesKey(lv) : lv \in DOMAIN applied}
        /\ Cardinality(LabelRegistry_All(registry)) = Cardinality(DOMAIN registry)
        /\ \A k \in DOMAIN registry :
              StaticCounter_Value(counters[registry[k]]) =
                  Wrap(AppliedSum({lv \in DOMAIN applied : labelValuesKey(lv) = k}))

\* The end-to-end scenario of C10: two Inc calls with one sequence and one with
\* another give two instances with values 2 and 1.
EndToEnd_Reached ==
    /\ DynQuiescent
    /\ applied = (<<"200", "GET">> :> 2 @@ <<"">> :> 1)
    /\ Cardinality(LabelRegistry_All(registry)) = 2
    /\ DynamicCounter_Value(registry, counters, <<"200", "GET">>) = 2
    /\ DynamicCounter_Value(registry, counters, <<"">>) = 1

\* The collision that refutes C10: Inc() and Inc("") share one instance.
KeyCollision_Reached ==
    /\ DynQuiescent
    /\ applied = (<<>> :> 1 @@ <<"">> :> 1)
    /\ Cardinality(LabelRegistry_All(registry)) = 1
    /\ DynamicCounter_Value(registry, counters, <<>>) = 2

\* C11: registry keys are the literal sequence of label values: two Get calls on
\* one registry return the same instance if and only if their label value
\* sequences are equal element by element; different sequences, also of different
\* lengths or holding empty strings, resolve to different instances.
C11_LiteralSequenceKeys ==
    \A r1 \in returned : \A r2 \in returned : (r1[2] = r2[2]) <=> (r1[1] = r2[1])

\* What holds of the code in place of C11: two Get calls return the same instance
\* if and only if their sequences join to the same key string.
SameInstanceIffSameKey ==
    \A r1 \in returned : \A r2 \in returned :
        (r1[2] = r2[2]) <=> (labelValuesKey(r1[1]) = labelValuesKey(r2[1]))

\* The case that refutes C11: Get() and Get("") have returned one instance.
LiteralKeysRefuted_Reached ==
    \E i \in 1..Len(counters) : {<<<<>>, i>>, <<<<"">>, i>>} \subseteq returned

\* Mathematical floor division and clamping, as the specification writes them.
FloorDiv(a, b) == a \div b
Clamp(lo, hi, x) == IF x < lo THEN lo ELSE IF x > hi THEN hi ELSE x

\* C7: with step > 0 and numBuckets >= 0, a value equal to the boundary step*i
\* (0 <= i < numBuckets) is counted in bucket i+1, a value below 0 in bucket 0
\* and a value at or above step*numBuckets in bucket numBuckets+1.
C7_BucketingBoundary ==
    (bOut # <<>> /\ bIn.step > 0 /\ bIn.numBuckets >= 0) =>
        /\ \A i \in 0..(bIn.numBuckets - 1) :
              bIn.value = bIn.step * i => bOut[1] = i + 1
        /\ bIn.value < 0 => bOut[1] = 0
        /\ bIn.value >= bIn.step * bIn.numBuckets => bOut[1] = bIn.numBuckets + 1

\* C8: with step > 0 and numBuckets >= 0, for every value the bucket index equals
\* clamp(0, numBuckets+1, floor((value + step) / step)) and lies in 0..numBuckets+1.
C8_BucketFormula ==
    (bOut # <<>> /\ bIn.step > 0 /\ bIn.numBuckets >= 0) =>
        /\ bOut[1] = Clamp(0, bIn.numBuckets + 1, FloorDiv(bIn.value + bIn.step, bIn.step))
        /\ bOut[1] \in 0..(bIn.numBuckets + 1)

\* Bucketing without the wrap-around of value - Offset + Step: the cases in which
\* C7 and C8 hold of the code.
BucketNoOverflow == bIn.value <= MaxInt - bIn.step
BucketingBoundary_NoOverflow == BucketNoOverflow => C7_BucketingBoundary
BucketFormula_NoOverflow == BucketNoOverflow => C8_BucketFormula
\* The bucket chosen when value - Offset + Step wraps around.
BucketOverflow_Reached == bOut # <<>> /\ ~BucketNoOverflow /\ bOut[1] = 0

\* C9 (as stated): labelValuesToMap(keys, values) is exactly the mapping
\* keys[i] -> values[i] for i < min(len(keys), len(values)).
C9_ExactMapping ==
    lOut # <<>> =>
        LET m == Min2(Len(lIn.keys), Len(lIn.values))
        IN  /\ DOMAIN lOut[1] = {lIn.keys[i] : i \in 1..m}
            /\ \A i \in 1..m : lOut[1][lIn.keys[i]] = lIn.values[i]

\* C9 (amended): the result holds exactly the keys at positions below
\* min(len(keys), len(values)), each mapped to the value at the last such position
\* where the key occurs; keys beyond the values are absent, values beyond the keys
\* are dropped, and the function returns a map for every combination of lengths.
C9_LastPositionMapping ==
    /\ lOut \in {<<>>} \cup {<<m>> : m \in UNION {[D -> LabelValues] : D \in SUBSET LabelKeyNames}}
    /\ lOut # <<>> =>
        LET m == Min2(Len(lIn.keys), Len(lIn.values))
        IN  /\ DOMAIN lOut[1] = {lIn.keys[i] : i \in 1..m}
            /\ \A i \in 1..m :
                  (\A j \in (i + 1)..m : lIn.keys[j] # lIn.keys[i])
                      => lOut[1][lIn.keys[i]] = lIn.values[i]

\* C9 witness: a repeated key and more values than keys.
C9_Witness ==
    /\ lIn = [keys |-> <<"status", "status">>, values |-> <<"200", "GET", "">>]
    /\ lOut = <<[k \in {"status"} |-> "GET"]>>

\* C9 witness of the truncation cases: fewer values than keys.
LabelsFewerValues_Reached ==
    /\ lIn = [keys |-> <<"status", "method">>, values |-> <<"200">>]
    /\ lOut = <<[k \in {"status"} |-> "200"]>>

\* Every call on the static counter has returned.
CounterQuiescent == \A p \in Procs : ccalls[p] = <<>>

\* C3: when all the concurrent Inc/Add calls have completed, Value() is the value
\* before the calls plus the sum D of their deltas, in int64 arithmetic.
C3_NoLostUpdate ==
    CounterQuiescent => StaticCounter_Value(counter) = Wrap(cinitial + cissued)

\* C3 witness: calls that were in flight together have all completed, Inc and Add
\* among them, and the counter holds the sum.
C3_Witness ==
    /\ CounterQuiescent
    /\ cpeak >= 2
    /\ cstarted >= 3
    /\ cinitial = 5
    /\ cissued = 4
    /\ StaticCounter_Value(counter) = 9

\* The sum of the elements of an array with indices 0..n-1.
RECURSIVE SumFrom(_, _)
SumFrom(arr, i) == IF i \notin DOMAIN arr THEN 0 ELSE arr[i] + SumFrom(arr, i + 1)
SumBuckets(arr) == SumFrom(arr, 0)

\* The sum of the elements of a sequence of integers.
RECURSIVE SumSeq(_)
SumSeq(q) == IF q = <<>> THEN 0 ELSE Head(q) + SumSeq(Tail(q))

\* The sum of NumSamples over a sequence of snapshots.
RECURSIVE SumNumSamples(_)
SumNumSamples(q) == IF q = <<>> THEN 0 ELSE Head(q).NumSamples + SumNumSamples(Tail(q))

\* The snapshots that exist: those returned, and the copies callers hold.
HeldResults == {dcalls[p].result[1] : p \in {q \in Procs : dcalls[q].result # <<>>}}
AllSnapshots == {snapshots[i] : i \in 1..Len(snapshots)} \cup HeldResults

\* C4: every completed Update is counted in exactly one snapshot or is still in the
\* running state: whenever no critical section is active, the sum of NumSamples
\* over the snapshots returned so far plus the current NumSamples equals the
\* number of completed Update calls.
C4_ExactlyOnceAccounting ==
    mu = 0 => SumNumSamples(snapshots) + dist.value.NumSamples = dcompleted

\* C4 witness: two snapshots with samples have been returned and a later sample
\* is in the running state.
C4_Witness ==
    /\ mu = 0
    /\ Len(snapshots) = 2
    /\ snapshots[1].NumSamples = 1
    /\ snapshots[2].NumSamples = 1
    /\ dist.value.NumSamples = 1
    /\ dcompleted = 3

\* The callers inside the critical section of Update.
InUpdateSection == {q \in Procs : dcalls[q].pc \in {"u_bucket", "u_count", "u_moments", "u_unlock"}}

\* C5: every snapshot is untorn: its bucket counts sum to its NumSamples, and when
\* GetAndClear has made its copy, NumSamples is the number of Update critical
\* sections that ran since the previous GetAndClear and no Update is part-way
\* through its critical section (bucket incremented, moments not yet, or the
\* reverse).
C5_UntornSnapshot ==
    /\ \A r \in AllSnapshots : SumBuckets(slices[r.Buckets]) = r.NumSamples
    /\ \A p \in Procs :
          dcalls[p].pc = "g_clear" =>
              /\ dcalls[p].result[1].NumSamples = Len(window)
              /\ InUpdateSection = {}

\* C5 witness: a copy of a window of two updates in different buckets.
C5_Witness ==
    \E p \in Procs :
        /\ dcalls[p].pc = "g_clear"
        /\ window = <<4, -1>>
        /\ dcalls[p].result[1].NumSamples = 2
        /\ slices[dcalls[p].result[1].Buckets] = (0 :> 1 @@ 1 :> 0 @@ 2 :> 1)

\* The running state after the updates of the sequence q, from the zero state:
\* <<bucket array, value>>.
RECURSIVE Replay(_)
Replay(q) ==
    IF q = <<>>
    THEN <<MakeInt64s(dist.NumBuckets + 2),
           [Buckets |-> BucketsPtr, NumSamples |-> 0, Mean |-> FZero,
            SumOfSquaredDeviation |-> FZero]>>
    ELSE LET before == Replay(SubSeq(q, 1, Len(q) - 1))
             v == q[Len(q)]
             b == bucketForValue(dist, v)
         IN  <<[before[1] EXCEPT ![b] = @ + 1],
               Update_Moments(Update_NumSamples(before[2]), v)>>

\* C6: after GetAndClear has cleared, the running state is zero and the bucket
\* array keeps its length numBuckets+2; a copy made with no Update since the
\* previous GetAndClear is all zero, and every copy is the state a zeroed
\* distribution reaches by the updates of its own window alone.
C6_ResetToZero ==
    \A p \in Procs :
        /\ dcalls[p].pc = "g_unlock" =>
              /\ slices[dist.value.Buckets] = MakeInt64s(dist.NumBuckets + 2)
              /\ dist.value.NumSamples = 0
              /\ dist.value.Mean = FZero
              /\ dist.value.SumOfSquaredDeviation = FZero
        /\ dcalls[p].pc = "g_clear" =>
              LET r == dcalls[p].result[1]
                  w == Replay(window)
              IN  /\ slices[r.Buckets] = w[1]
                  /\ r.NumSamples = w[2].NumSamples
                  /\ r.Mean = w[2].Mean
                  /\ r.SumOfSquaredDeviation = w[2].SumOfSquaredDeviation
                  /\ window = <<>> =>
                        /\ slices[r.Buckets] = MakeInt64s(dist.NumBuckets + 2)
                        /\ r.NumSamples = 0 /\ r.Mean = FZero
                        /\ r.SumOfSquaredDeviation = FZero

\* C6 witness: a snapshot with samples, then an all-zero snapshot taken with no
\* Update in between, then a copy of a later window of one update.
C6_Witness ==
    \E p \in Procs :
        /\ Len(snapshots) = 2
        /\ snapshots[1].NumSamples = 1
        /\ snapshots[2].NumSamples = 0
        /\ slices[snapshots[2].Buckets] = MakeInt64s(dist.NumBuckets + 2)
        /\ dcalls[p].pc = "g_clear"
        /\ window = <<4>>
        /\ dcalls[p].result[1].NumSamples = 1
        /\ dcalls[p].result[1].Mean = Float64(4)

\* The calls a complete tick makes, in order: every listener that is not nil is
\* called and returns, in registration order, and then Emit is called.
RECURSIVE ExpectedLog(_)
ExpectedLog(ls) ==
    IF ls = <<>> THEN <<<<"emit">>>>
    ELSE IF Head(ls) = NilListener THEN ExpectedLog(Tail(ls))
    ELSE <<<<"call", Head(ls)>>, <<"return", Head(ls)>>>> \o ExpectedLog(Tail(ls))

IsPrefix(s, t) == Len(s) <= Len(t) /\ SubSeq(t, 1, Len(s)) = s

\* The goroutine is inside a tick.
InTick == sched.pc \in {"notify", "listener", "emit"}

\* C12: on every tick the registered listeners are called one after the other in
\* registration order, each has returned before the next call and before Emit is
\* called, and Emit is called exactly once for the tick.
C12_ListenersThenEmitOnce ==
    /\ IsPrefix(tickLog, ExpectedLog(listeners))
    /\ (ticks > 0 /\ sched.pc \in {"emit", "select", "done"}) =>
            tickLog = ExpectedLog(listeners)
    /\ emitCalls = IF sched.pc \in {"notify", "listener"} THEN ticks - 1 ELSE ticks

\* C12 witness: the second tick of a schedule with two listeners is complete.
C12_Witness ==
    /\ listeners = <<2, 1>>
    /\ ticks = 2 /\ emitCalls = 2
    /\ sched.pc = "select"
    /\ tickLog = <<<<"call", 2>>, <<"return", 2>>, <<"call", 1>>, <<"return", 1>>, <<"emit">>>>

\* C13: once the cancellation signal has fired no new tick begins, also when a
\* timer tick is pending at the moment the cancellation becomes observable.
C13_NoTickAfterCancel == lateTicks = 0

\* What holds of the code in place of C13: a tick begins after the cancellation
\* only from a select at which a timer tick was buffered.
LateTickOnlyFromBufferedTick ==
    [][(lateTicks' > lateTicks) => (sched.pc = "select" /\ ctxDone /\ tickerC > 0)]_vars

\* The case that refutes C13: cancelled at the select with a tick buffered, the
\* goroutine ran a whole tick and called Emit.
LateTick_Reached ==
    /\ cancelAt # <<>> /\ cancelAt[1].pc = "select"
    /\ lateTicks = 1
    /\ sched.pc = "emit"

\* C14: after the cancellation signal has fired, the background task stops the
\* ticker and terminates.
C14_TerminatesAfterCancel ==
    (ctxDone /\ sched.pc # "new") ~> (sched.pc = "done" /\ tickerStopped)

\* C14 witness: the goroutine has run a tick, was cancelled and has terminated.
C14_Witness ==
    /\ ctxDone /\ ticks >= 1
    /\ sched.pc = "done" /\ tickerStopped

\* C15: a tick in progress when the cancellation fires runs to completion: when
\* the goroutine has exited, every tick it began has called all its listeners and Emit.
C15_InFlightTickCompletes ==
    sched.pc = "done" =>
        /\ emitCalls = ticks
        /\ ticks > 0 => tickLog = ExpectedLog(listeners)

\* C15 witness: the cancellation fired inside the first of two listeners; the
\* second listener and Emit were still called, and the goroutine has exited.
C15_Witness ==
    /\ listeners = <<1, 2>>
    /\ cancelAt # <<>> /\ cancelAt[1].pc = "listener" /\ cancelAt[1].i = 1
    /\ cancelAt[1].tick = ticks
    /\ sched.pc = "done"
    /\ tickLog = <<<<"call", 1>>, <<"return", 1>>, <<"call", 2>>, <<"return", 2>>, <<"emit">>>>

\* C20: a failed backend write does not stop the scheduler: the goroutine does
\* not die of it, it goes back to the select, and it exits only on cancellation.
C20_WriteFailureDoesNotStop ==
    failedTicks # {} =>
        /\ sched.pc # "crashed"
        /\ sched.pc = "done" => ctxDone
        /\ (~InTick /\ sched.pc # "done") => sched.pc = "select"

\* C20 witness: the write of the first tick failed, and the next timer tick ran
\* the listener and Emit again.
C20_Witness ==
    /\ failedTicks = {1}
    /\ ~ctxDone
    /\ listeners = <<1>>
    /\ ticks = 2 /\ emitCalls = 2
    /\ tickLog = <<<<"call", 1>>, <<"return", 1>>, <<"emit">>>>

\* The elements of the sequences of ss, one sequence after the other.
RECURSIVE FlattenSeqs(_)
FlattenSeqs(ss) == IF ss = <<>> THEN <<>> ELSE Head(ss) \o FlattenSeqs(Tail(ss))

\* What a pass yields: every static element in slice order, then the elements
\* of the facades in facade order, up to and including the element at which
\* the consumer breaks.
CombineExpected ==
    LET all == cmIn.static \o FlattenSeqs(cmIn.dynamic)
    IN  IF cmIn.stopAfter = 0 \/ cmIn.stopAfter > Len(all) THEN all
        ELSE SubSeq(all, 1, cmIn.stopAfter)

\* C17: the sequence yields the static elements in slice order and then the
\* elements of each facade's All() in facade order, each once; after the consumer
\* stops nothing more is yielded; and a new iteration starts again from the first
\* static element.
C17_CombineOrder ==
    /\ IsPrefix(cmOut, CombineExpected)
    /\ cmIt.pc = "returned" => cmOut = CombineExpected
    /\ \A k \in 1..Len(cmPrev) : cmPrev[k] = CombineExpected

\* C17 witness: the consumer broke at the first element of the second facade, in
\* a first pass and again in a second one.
C17_Witness ==
    /\ cmIn.static = <<"c2", "c1">>
    /\ cmIn.dynamic = <<<<"d1">>, <<"d2", "d3">>>>
    /\ cmIn.stopAfter = 4
    /\ cmIt.pc = "returned"
    /\ cmPrev = <<<<"c2", "c1", "d1", "d2">>>>
    /\ cmOut = <<"c2", "c1", "d1", "d2">>

\* C17 witness of the unbroken iteration: all the elements were yielded.
CombineAll_Reached ==
    /\ cmIn.stopAfter = 0
    /\ cmIt.pc = "returned"
    /\ cmOut = <<"c1", "d2", "d3", "d1">>

\* No Set call is in progress.
GaugeQuiescent == \A p \in Procs : gcalls[p] = <<>>

\* C18: Value() is 0 before any Set and the argument of the Set call that
\* completed last when the calls did not overlap; after Set calls that ran
\* concurrently have all completed it is the argument of one of them (one of the
\* completed calls that no later call followed), never a mixture or the
\* argument of an earlier call.
C18_LastSetWins ==
    /\ gstarted = 0 => StaticGauge_Value(gauge) = 0
    /\ (GaugeQuiescent /\ gcompleted > 0) => StaticGauge_Value(gauge) \in glive
    /\ (GaugeQuiescent /\ gcompleted > 0 /\ gpeak = 1) => StaticGauge_Value(gauge) = glast

\* C18 witness: after Set(0) had returned, Set(3) and Set(-2) ran concurrently;
\* Set(3) returned last and the value is -2.
C18_Witness ==
    /\ GaugeQuiescent
    /\ gcompleted = 3 /\ gpeak = 2
    /\ glive = {3, -2}
    /\ glast = 3
    /\ StaticGauge_Value(gauge) = -2

\* C18 witness of the sequential case: Set(3) then Set(0), one after the other.
GaugeSequential_Reached ==
    /\ GaugeQuiescent
    /\ gcompleted = 2 /\ gpeak = 1
    /\ glive = {0} /\ glast = 0
    /\ StaticGauge_Value(gauge) = 0

\* The positions at which key k has a supplied value.
SuppliedAt(keys, vals, k) == {i \in 1..Min2(Len(keys), Len(vals)) : keys[i] = k}

Last(S) == CHOOSE i \in S : \A j \in S : j <= i

\* C19: the labels of the instance a facade creates for vals are the static
\* labels overlaid with labelValuesToMap(labelKeys, vals): a dynamic key with a
\* supplied value carries that value, also over a static label of the same
\* name; every other static label is present with its static value, also when a
\* dynamic key of the same name has no supplied value; no other key is present.
C19_StaticOverlaidWithDynamic ==
    fOut # <<>> =>
        LET labels == fOut[1].Labels
            supplied(k) == SuppliedAt(fIn.labelKeys, fIn.vals, k)
        IN  /\ labels = MapsCopy(fIn.staticLabels, labelValuesToMap(fIn.labelKeys, fIn.vals))
            /\ DOMAIN labels =
                   DOMAIN fIn.staticLabels \cup {k \in LabelKeyNames : supplied(k) # {}}
            /\ \A k \in DOMAIN labels :
                   labels[k] = IF supplied(k) # {} THEN fIn.vals[Last(supplied(k))]
                               ELSE fIn.staticLabels[k]

\* C19 witness: status is static and dynamic with a supplied value, method is
\* static and dynamic without one, env is static only.
C19_Witness ==
    /\ fOut # <<>>
    /\ fIn.kind = "counter"
    /\ fIn.staticLabels = [k \in StaticLabelKeys |-> "prod"]
    /\ fIn.labelKeys = <<"status", "method">>
    /\ fIn.vals = <<"200">>
    /\ fOut[1].Labels = [env |-> "prod", status |-> "200", method |-> "prod"]

\* An Emit call that did not decline has returned.
EmitCompleted == em.pc = "idle" /\ outcome \in {"empty", "written", "failed"}

\* C16: on each emission tick the export covers every live instance: every
\* static counter, gauge and distribution of the collection and every instance
\* installed in the registry of a dynamic counter, gauge or distribution before
\* the tick began.
C16_ExportCoversLiveInstances == EmitCompleted => liveAtStart \subseteq visited

\* What holds of the code in place of C16: the export covers exactly the static
\* instances that were in the three lists when Emit began.
ExportCoversStaticInstances ==
    EmitCompleted =>
        visited = liveAtStart \cap
                  {Emit_Instances(metrics)[i] : i \in 1..Len(Emit_Instances(metrics))}

\* The case that refutes C16: an instance of a dynamic counter was installed and
\* incremented before Emit began, and Emit returned with nothing to send.
DynamicNotExported_Reached ==
    /\ EmitCompleted
    /\ outcome = "empty"
    /\ Len(metrics.DynamicCounters) = 1
    /\ liveAtStart = {1}
    /\ Len(insts) = 1 /\ insts[1].kind = "counter"
    /\ StaticCounter_Value(insts[1].m) = 2
    /\ visited = {}

\* A static counter and a static distribution were exported in one request.
StaticExported_Reached ==
    /\ EmitCompleted
    /\ outcome = "written"
    /\ Len(requests) = 1 /\ Len(requests[1]) = 2
    /\ visited = {1, 2} /\ liveAtStart = {1, 2}

\* The instance id is a distribution.
IsDistribution(id) == insts[id].kind = "distribution"

\* The exporter has a nil client, an empty project id or a nil monitored resource.
Misconfigured ==
    ~emitter.Client \/ emitter.ProjectID = "" \/ ~emitter.MonitoredResource

\* C21: an Emit call on an emitter without a client, a project id or a
\* monitored resource returns at once as declined: the call changes no
\* instance, no list and no registry, sends no request, and never reaches the
\* loops, so no distribution is read or cleared by it.
C21_MisconfiguredEmitDeclines ==
    /\ [](Misconfigured =>
            em.pc = "idle" /\ visited = {} /\ requests = <<>>
            /\ outcome \in {"", "declined"})
    /\ [][(Misconfigured /\ emBudget'.emits = emBudget.emits + 1) =>
            /\ insts' = insts /\ metrics' = metrics /\ facades' = facades
            /\ requests' = requests
            /\ em' = IdleEmit /\ outcome' = "declined"]_vars

\* C21 witness: an emitter that is not configured has declined while a
\* distribution held samples, which are still there.
C21_Witness ==
    /\ Misconfigured
    /\ outcome = "declined"
    /\ Len(metrics.Distributions) >= 1
    /\ insts[metrics.Distributions[1]].m.value.NumSamples > 0

\* C22: the step of Emit on a distribution appends the GetAndClear snapshot to
\* the time series of the request when the snapshot has samples and appends
\* nothing when it has none; no request ever holds a snapshot without samples.
C22_EmptyDistributionSkipped ==
    /\ [][(em.pc = "loops" /\ InDistributions(em.k) /\ em'.k = em.k + 1) =>
            LET id == Emit_Instances(metrics)[em.k]
                snapshot == insts[id].m.value
            IN  IF snapshot.NumSamples > 0
                THEN em'.list = Append(em.list, [inst |-> id, value |-> snapshot])
                ELSE em'.list = em.list]_vars
    /\ [](\A i \in 1..Len(requests) : \A j \in 1..Len(requests[i]) :
            IsDistribution(requests[i][j].inst) => requests[i][j].value.NumSamples > 0)

\* C22 witness: an Emit call has read two distributions, one with samples and
\* one without, and its request holds the first one only.
C22_Witness ==
    /\ Len(metrics.Distributions) = 2
    /\ EmitCompleted
    /\ visited = {metrics.Distributions[1], metrics.Distributions[2]}
    /\ Len(requests) = 1
    /\ Len(requests[1]) = 1
    /\ requests[1][1].value.NumSamples > 0

\* An Emit call that found nothing to send: every distribution was empty.
EmptyWindow_Reached ==
    /\ Len(metrics.Distributions) >= 1
    /\ outcome = "empty"
    /\ requests = <<>>

\* The list a creation call appends to: Counter to Counters, Gauge to Gauges,
\* Distribution to Distributions, and the ...WithLabels calls to the Dynamic lists.
ListOfCall(c) ==
    CASE c.static /\ c.call = "counter" -> "Counters"
      [] c.static /\ c.call = "gauge" -> "Gauges"
      [] c.static /\ c.call = "distribution" -> "Distributions"
      [] ~c.static /\ c.call = "counter" -> "DynamicCounters"
      [] ~c.static /\ c.call = "gauge" -> "DynamicGauges"
      [] ~c.static /\ c.call = "distribution" -> "DynamicDistributions"

\* What the creation calls cs created for the list f, in the order of the calls.
RECURSIVE CreatedFor(_, _)
CreatedFor(cs, f) ==
    IF cs = <<>> THEN <<>>
    ELSE (IF ListOfCall(Head(cs)) = f THEN <<Head(cs).elem>> ELSE <<>>)
         \o CreatedFor(Tail(cs), f)

\* C23: each of the six lists holds exactly what the creation calls of its kind
\* created, in the order of the calls; a creation call appends one element to
\* one list and leaves the other five alone, and no step of any operation
\* (update, registry insertion, Emit) removes or reorders an element.
C23_ListsHoldCreatedInOrder ==
    /\ [](\A f \in DOMAIN metrics : metrics[f] = CreatedFor(created, f))
    /\ [](\A i \in 1..Len(created) :
            IF created[i].static THEN insts[created[i].elem].kind = created[i].call
            ELSE facades[created[i].elem].kind = created[i].call)
    /\ [][\A f \in DOMAIN metrics : IsPrefix(metrics[f], metrics'[f])]_vars
    /\ [][created' # created =>
            \E f \in DOMAIN metrics :
                /\ Len(metrics'[f]) = Len(metrics[f]) + 1
                /\ \A g \in DOMAIN metrics \ {f} : metrics'[g] = metrics[g]]_vars

\* C23 witness: two metrics of the same kind were created, then updated and
\* exported, and the list holds them in creation order.
C23_Witness ==
    /\ Len(created) = 2
    /\ created[1].call = "gauge" /\ created[1].static
    /\ created[2].call = "gauge" /\ created[2].static
    /\ metrics.Gauges = <<created[1].elem, created[2].elem>>
    /\ emBudget.updates > 0
    /\ EmitCompleted

\* A static and a dynamic metric of the same kind are in different lists.
TwoLists_Reached ==
    /\ Len(metrics.Counters) = 1
    /\ Len(metrics.DynamicCounters) = 1

\* C24: a call of Inc, Add, Set or Update on a static metric with any list of
\* label values leaves the metric (its value, its buckets, its name and its
\* labels) exactly as the same call without label values does, and the labels
\* are those given at creation.
C24_StaticIgnoresLabelValues ==
    stOut # <<>> =>
        /\ stOut[1] = stOut[2]
        /\ stOut[1].m.Labels = stIn.labels

\* C24 witness: Update was called with two label values on a distribution with
\* labels that already held a sample, and it now holds two.
C24_Witness ==
    /\ stOut # <<>>
    /\ stIn.op = "Update"
    /\ Len(stIn.labelValues) = 2
    /\ stIn.labels # EmptyMap
    /\ stIn.prior = 1
    /\ stOut[1].m.value.NumSamples = 2

\* The instances a walk yielded.
Yielded == {walkOut[i] : i \in 1..Len(walkOut)}

\* C25: in a walk of All() that runs while callers install instances, no
\* instance is yielded twice and every instance yielded is an installed one;
\* when the walk has run to its end, every instance that was installed when it
\* began has been yielded.  This holds for a second call of the same sequence
\* as for the first: it visits the instances of the first walk again.
C25_WalkYieldsInstalledOnce ==
    /\ \A i, j \in 1..Len(walkOut) : walkOut[i] = walkOut[j] => i = j
    /\ Yielded \subseteq LabelRegistry_All(registry)
    /\ (walk.pc = "idle" /\ walkEnd = "exhausted") => walkStart \subseteq Yielded

\* C25 witness: the second walk has run to its end; it began with an instance
\* installed that the first walk had yielded, and an instance was installed
\* while it ran.
C25_Witness ==
    /\ walks = 2
    /\ walk.pc = "idle" /\ walkEnd = "exhausted"
    /\ walkStart # {}
    /\ walkStart \subseteq Yielded
    /\ LabelRegistry_All(registry) # walkStart

\* An instance installed during a walk was yielded by it.
InstalledDuringWalk_Yielded_Reached ==
    /\ walk.pc = "idle" /\ walkEnd = "exhausted"
    /\ Yielded # walkStart

\* An instance installed during a walk was not yielded by it.
InstalledDuringWalk_Skipped_Reached ==
    /\ walk.pc = "idle" /\ walkEnd = "exhausted"
    /\ Yielded = walkStart
    /\ LabelRegistry_All(registry) # walkStart
    /\ walks = 1

\* C26: every operation of the core returns, for every step and numBuckets the
\* constructor of the distribution accepts and every value.
C26_NoFallibleOperation == tOut # <<>> => tOut[1] = "returns"

\* What the code does: the operations return for every step other than zero and
\* every numBuckets of at least -1; the counter, gauge and registry operations
\* return for every input.
TotalOnNonZeroStep ==
    (tOut # <<>> /\ tIn.step # 0 /\ tIn.numBuckets >= -1) => tOut[1] = "returns"

\* Update on a distribution built with step 0 panics in the division.
DivideByZero_Reached ==
    /\ tOut = <<"panic: integer divide by zero">>
    /\ tIn.op = "Update" /\ tIn.step = 0 /\ tIn.numBuckets = 1

\* The two-pass formulas: the arithmetic mean of the values q, and the sum of the
\* squares of their deviations from it.
TwoPassMean(q) == Rat(SumSeq(q), Len(q))
RECURSIVE TwoPassSumSq(_, _)
TwoPassSumSq(q, mean) ==
    IF q = <<>> THEN FZero
    ELSE LET dev == FSub(Float64(Head(q)), mean)
         IN  FAdd(FMul(dev, dev), TwoPassSumSq(Tail(q), mean))

\* C27: the snapshot of a window of n >= 1 updates has the arithmetic mean of
\* the window's values as its Mean, and for n >= 2 its SumOfSquaredDeviation
\* divided by n-1 is the unbiased sample variance of the two-pass formula.
\* The arithmetic is exact here, so the tolerance is zero.
C27_WelfordMatchesTwoPass ==
    \A p \in Procs :
        (dcalls[p].pc = "g_clear" /\ Len(window) >= 1) =>
            LET r == dcalls[p].result[1]
                n == Len(window)
                mean == TwoPassMean(window)
            IN  /\ r.NumSamples = n
                /\ r.Mean = mean
                /\ n >= 2 =>
                      FDiv(r.SumOfSquaredDeviation, Float64(n - 1))
                          = FDiv(TwoPassSumSq(window, mean), Float64(n - 1))

\* C27 witness: a snapshot of a window of three different values, whose mean is
\* not an integer and whose variance is not zero.
C27_Witness ==
    \E p \in Procs :
        /\ dcalls[p].pc = "g_clear"
        /\ window = <<4, -1, 1>>
        /\ dcalls[p].result[1].Mean = <<4, 3>>
        /\ dcalls[p].result[1].SumOfSquaredDeviation # FZero

\* C28: once the ticker is stopped no tick begins: the ticker does not fire,
\* the number of ticks begun stays as it is, no tick is ready for a goroutine
\* that is still running, and a goroutine waiting in its select stays there
\* until the cancellation; only a tick that had begun before the Stop goes on
\* to its listeners and its Emit.
C28_NoTickAfterStop ==
    /\ [][tickerStopped => (ticks' = ticks /\ fired' = fired)]_vars
    /\ [][(tickerStopped /\ sched.pc = "select") => sched'.pc \in {"select", "done"}]_vars
    /\ []((tickerStopped /\ sched.pc # "done") => ~TickerC_Ready(tickerC))

\* C28 witness: the caller stopped the ticker during the Emit of the first
\* tick, after the ticker had fired again; the tick was completed and the
\* goroutine waits in its select, with no cancellation.
C28_Witness ==
    /\ tickerStopped /\ ~ctxDone
    /\ sched.pc = "select"
    /\ fired = 2 /\ ticks = 1 /\ emitCalls = 1
    /\ Len(tickLog) > 1

\* The ticker was stopped while a tick was in its Emit call.
StopDuringEmit_Reached == tickerStopped /\ ~ctxDone /\ sched.pc = "emit"

\* The values Value() returned never decrease.
ReadsNeverDecrease == \A i, j \in 1..Len(creads) : i < j => creads[i] <= creads[j]

\* C29: with writers that call only Inc and Add with deltas that are not
\* negative, the values successive Value() calls return never decrease.
C29_ValueNeverDecreases == ReadsNeverDecrease

\* What the code does: the values never decrease as long as the initial value
\* plus the deltas of the calls started does not exceed the largest int64.
MonotoneWithoutOverflow == (cinitial + cissued <= MaxInt) => ReadsNeverDecrease

\* A value near the largest int64 was read, and after an Inc and an Add of 2 a
\* negative one.
CounterWrapped_Reached ==
    /\ Len(creads) >= 2
    /\ creads[1] = MaxInt - 1
    /\ creads[Len(creads)] < 0

\* C30: the time series of a request are a snapshot of one moment: some state
\* the instances were in between the call of Emit and its write agrees with
\* every value of the request.
C30_ConsistentSnapshot ==
    (EmitCompleted /\ outcome \in {"written", "failed"}) => cands # {}

\* What the code does: each value is read atomically at its own moment, so a
\* request of one time series is the state of one moment.
SingleSeriesConsistent ==
    (EmitCompleted /\ Len(requests) = 1 /\ Len(requests[1]) = 1) => cands # {}

\* A request with the values 0 and 1 of two counters that a writer incremented
\* one after the other, the first one first, between the two reads.
TornSnapshot_Reached ==
    /\ EmitCompleted
    /\ metrics.Counters = <<1, 2>>
    /\ Len(requests) = 1
    /\ requests[1] = <<[inst |-> 1, value |-> 0], [inst |-> 2, value |-> 1]>>
    /\ cands = {}

\* The instances Get has returned.
ReturnedInstances == {r[2] : r \in returned}

\* C31: a Get that begins when an instance is installed for its key returns
\* that instance and does not call the factory; the factory is called by a Get
\* whose lookup missed, once, before its LoadOrStore; and every instance a Get
\* has returned or a walk of All() has yielded is an installed one, so an
\* instance built by a caller that lost the race is neither returned nor
\* yielded.
C31_FactoryOnMissOnly ==
    /\ [][\A p \in Procs :
            (callers[p].pc = "idle" /\ callers'[p].pc # "idle") =>
                LET key == labelValuesKey(callers'[p].labelValues)
                IN  IF key \in DOMAIN registry
                    THEN /\ callers'[p].pc = "apply"
                         /\ callers'[p].actual = registry[key]
                         /\ <<callers'[p].labelValues, registry[key]>> \in returned'
                         /\ factoryCalls' = factoryCalls /\ counters' = counters
                    ELSE callers'[p].pc = "factory" /\ callers'[p].newValue = 0]_vars
    /\ [][factoryCalls' # factoryCalls =>
            \E p \in Procs :
                /\ callers[p].pc = "factory" /\ callers[p].newValue = 0
                /\ callers'[p].pc = "store" /\ callers'[p].newValue = Len(counters')
                /\ factoryCalls' = Append(factoryCalls, callers[p].labelValues)
                /\ Len(counters') = Len(counters) + 1]_vars
    /\ [][\A p \in Procs :
            (callers'[p].pc = "factory" /\ callers[p].pc # "factory") =>
                callers[p].pc = "idle"]_vars
    /\ [](ReturnedInstances \cup Yielded \subseteq LabelRegistry_All(registry))

\* C31 witness: two callers raced on one key and each built an instance; the
\* one that lost was given the winner's instance, and a walk of All() that
\* began after the race has run to its end and yielded the winner's only.
C31_Witness ==
    /\ Len(counters) = 2
    /\ \E p \in Procs :
          /\ callers[p].pc = "apply"
          /\ callers[p].newValue # 0
          /\ callers[p].actual # callers[p].newValue
          /\ callers[p].newValue \notin ReturnedInstances \cup Yielded
          /\ walk.pc = "idle" /\ walkEnd = "exhausted"
          /\ walkStart = {callers[p].actual}
          /\ Yielded = {callers[p].actual}

\* A Get that began after the instance of its key was installed has returned it,
\* the factory having run once.
GetAfterInstall_Reached ==
    /\ Len(factoryCalls) = 1
    /\ \E p \in Procs :
          /\ callers[p].pc = "apply"
          /\ callers[p].newValue = 0
          /\ callers[p].actual = 1
          /\ DynQuiescent = FALSE
    /\ Cardinality(returned) = 1
    /\ started = 2

\* C32: an installed entry stays: no step removes a key of the registry or puts
\* another instance under it, so the instances All() has to yield only grow,
\* from one step to the next and from one walk to the next, and all the Get
\* calls for one key, early and late, have returned one instance.
C32_EntriesPermanent ==
    /\ [][\A k \in DOMAIN registry :
            k \in DOMAIN registry' /\ registry'[k] = registry[k]]_vars
    /\ [][LabelRegistry_All(registry) \subseteq LabelRegistry_All(registry')]_vars
    /\ [][walkStart' # walkStart => walkStart \subseteq walkStart']_vars
    /\ [](\A r1 \in returned : \A r2 \in returned :
            labelValuesKey(r1[1]) = labelValuesKey(r2[1]) => r1[2] = r2[2])
    /\ [](\A r \in returned :
            /\ labelValuesKey(r[1]) \in DOMAIN registry
            /\ registry[labelValuesKey(r[1])] = r[2])

\* C32 witness: an instance was installed by the first Get and yielded by a
\* walk; a later Get for the key has returned the same instance and a second
\* walk has yielded it again.
C32_Witness ==
    /\ started = 2 /\ DynQuiescent
    /\ Len(factoryCalls) = 1
    /\ DOMAIN applied = {<<"200", "GET">>}
    /\ applied[<<"200", "GET">>] = 2
    /\ returned = {<<<<"200", "GET">>, 1>>}
    /\ walks = 2 /\ walk.pc = "idle" /\ walkEnd = "exhausted"
    /\ Yielded = {1}

\* A second instance was installed while the first stayed, and the second walk
\* has yielded both.
RegistryGrew_Reached ==
    /\ walks = 2 /\ walk.pc = "idle" /\ walkEnd = "exhausted"
    /\ Cardinality(walkStart) = 1
    /\ Cardinality(Yielded) = 2
    /\ walkStart \subseteq Yielded

\* C33: the snapshot of GetAndClear is a copy of its own: its bucket array is
\* not the distribution's nor another snapshot's, and no step changes the
\* bucket counts, NumSamples, Mean or SumOfSquaredDeviation of a snapshot that
\* exists, be it the clearing of the same call or a later Update or
\* GetAndClear.
C33_SnapshotIsDeepCopy ==
    /\ [][\A r \in AllSnapshots :
            /\ r \in AllSnapshots'
            /\ slices'[r.Buckets] = slices[r.Buckets]]_vars
    /\ [][\A i \in 1..Len(snapshots) : snapshots'[i] = snapshots[i]]_vars
    /\ [](\A r \in AllSnapshots : r.Buckets # dist.value.Buckets)
    /\ [](\A i, j \in 1..Len(snapshots) :
            snapshots[i].Buckets = snapshots[j].Buckets => i = j)

\* C33 witness: a snapshot of one sample was returned; since then the same call
\* cleared the distribution, a later Update and a later GetAndClear went
\* through and another Update was counted, and the first snapshot still holds
\* its sample.
C33_Witness ==
    /\ Len(snapshots) = 2
    /\ mu = 0
    /\ snapshots[1].NumSamples = 1
    /\ snapshots[1].Mean = Float64(4)
    /\ slices[snapshots[1].Buckets] = (0 :> 0 @@ 1 :> 0 @@ 2 :> 1)
    /\ slices[snapshots[2].Buckets] = (0 :> 1 @@ 1 :> 0 @@ 2 :> 0)
    /\ slices[dist.value.Buckets] = (0 :> 0 @@ 1 :> 1 @@ 2 :> 0)

\* The callers inside the critical section of the distribution d.
InSection(d) == {p \in Procs : lcalls[p].d = d /\ lcalls[p].pc \in {"section", "unlock"}}

\* NumSamples after the critical sections of a log, run one after the other.
RECURSIVE SerialCount(_)
SerialCount(log) ==
    IF log = <<>> THEN 0
    ELSE IF log[Len(log)].op = "GetAndClear" THEN 0
         ELSE SerialCount(SubSeq(log, 1, Len(log) - 1)) + 1

\* Each critical section of a log saw the state the sections before it left.
SerialLog(log) ==
    \A i \in 1..Len(log) :
        LET before == SerialCount(SubSeq(log, 1, i - 1))
        IN  log[i].n = IF log[i].op = "Update" THEN before + 1 ELSE before

\* C34: at most one caller is inside the critical section of a distribution,
\* and its sections took effect one after the other, in one order; a caller
\* that waits for the lock of a distribution with no critical section active
\* can take it, whatever the callers on the other distributions do.
C34_ExclusionPerDistribution ==
    \A d \in LockDists :
        /\ Cardinality(InSection(d)) <= 1
        /\ SerialLog(lorder[d])
        /\ ldists[d].m.value.NumSamples = SerialCount(lorder[d])
        /\ \A p \in Procs :
              (lcalls[p].pc = "lock" /\ lcalls[p].d = d /\ InSection(d) = {}) =>
                  ENABLED Locks_Lock(p)

\* C34 witness: after an earlier Update on the first distribution, critical
\* sections of the first and of the second distribution are active at once.
C34_Witness ==
    /\ lstarted = 3
    /\ lorder[1] = <<[op |-> "Update", n |-> 1]>>
    /\ InSection(1) # {} /\ InSection(2) # {}

\* A caller waits for the lock of a distribution while another caller is in its
\* critical section.
WaitsForSameDistribution_Reached ==
    \E p \in Procs : \E q \in Procs :
        /\ lcalls[p].pc = "lock" /\ lcalls[q].pc = "section"
        /\ lcalls[p].d = lcalls[q].d
        /\ ~ENABLED Locks_Lock(p)

\* C35: under fair scheduling the calls in progress all return: from every
\* state with a call in progress a state with none is reached.  An Update or
\* GetAndClear call returns only from its critical section, releasing the lock
\* as it does, and the lock is held only by a caller inside its critical
\* section.  A call on the counter, on the gauge or on the registry that is in
\* progress can always take its next step, whatever the other callers do.
C35_Progress ==
    /\ (\E p \in Procs : InCall(p)) ~> (\A p \in Procs : ~InCall(p))
    /\ [][\A p \in Procs :
            (dcalls[p].pc # "idle" /\ dcalls'[p].pc = "idle") => (mu = p /\ mu' = 0)]_vars
    /\ [](\A p \in Procs :
            mu = p <=> dcalls[p].pc \notin {"idle", "u_lock", "g_lock"})
    /\ [](\A p \in Procs :
            /\ InCounterCall(p) => ENABLED Counter_Inc(p)
            /\ InGaugeCall(p) => ENABLED (Gauge_Store(p) \/ Gauge_Return(p))
            /\ InGetCall(p) => ENABLED (Get_Factory(p) \/ Get_LoadOrStore(p) \/ Dyn_Inc(p)))

\* C35 witness: every call has returned and the lock is free, after an Update
\* and a GetAndClear that took the lock one after the other.
C35_Witness ==
    /\ \A p \in Procs : ~InCall(p)
    /\ mu = 0
    /\ dstarted = 2
    /\ Len(snapshots) = 1 /\ dcompleted = 1
    /\ snapshots[1].NumSamples = 1

\* A caller waits for the lock that another caller holds.
LockWait_Reached ==
    \E p \in Procs : \E q \in Procs :
        dcalls[p].pc = "g_lock" /\ mu = q /\ ~ENABLED Dist_GetAndClearLock(p)

\* A call on the registry is in progress while the lock of the distribution is
\* held.
LockFreeBesideLock_Reached ==
    \E p \in Procs : mu # 0 /\ mu # p /\ callers[p].pc = "store"

\* C36: a Value call on the dynamic counter is a read only: made with label
\* values that were never updated it returns 0, and the instance it built on
\* its way, if it built one, is not among the instances All() yields after
\* the call, so the call adds no time series.
C36_ValueIsSideEffectFree ==
    \A i \in 1..Len(vreads) :
        /\ vreads[i].labelValues \notin vreads[i].updated => vreads[i].value = 0
        /\ vreads[i].built \notin vreads[i].after

\* What the code does: Value returns the sum of the deltas applied with the
\* sequences that join to the key of its own.
ValueReadsKeySum ==
    \A i \in 1..Len(vreads) : vreads[i].value = Wrap(vreads[i].keySum)

\* The first call on a new dynamic counter is Value("200", "GET"): it has
\* returned 0 and All() yields one instance, the one the call built.
ValueInstalled_Reached ==
    /\ started = 1 /\ DynQuiescent
    /\ vreads # <<>>
    /\ vreads[1].labelValues = <<"200", "GET">>
    /\ vreads[1].value = 0
    /\ vreads[1].built = 1
    /\ applied = EmptyMap
    /\ LabelRegistry_All(registry) = {1}

\* Value("") has returned 1 after Inc(): the two sequences share a key.
ValueOfOtherSequence_Reached ==
    \E i \in 1..Len(vreads) :
        /\ vreads[i].labelValues = <<"">>
        /\ vreads[i].updated = {<<>>}
        /\ vreads[i].value = 1

\* The first n elements of a sequence, or all of it when it is shorter.
Take(q, n) == SubSeq(q, 1, Min2(n, Len(q)))

\* C37: after two calls on a dynamic counter no two installed instances carry
\* the same label map, and two label value lists that are equal up to the
\* number of label keys, differing only in the values beyond it, have resolved
\* to one instance.
C37_DistinctLabelSets ==
    sOut # <<>> =>
        LET reg == sOut[1].registry
            heap == sOut[1].counters
            n == Len(sIn.labelKeys)
        IN  /\ \A k1 \in DOMAIN reg : \A k2 \in DOMAIN reg :
                  heap[reg[k1]].Labels = heap[reg[k2]].Labels => k1 = k2
            /\ (Len(sIn.first) >= n /\ Len(sIn.second) >= n
                    /\ Take(sIn.first, n) = Take(sIn.second, n)) =>
                  sOut[1].returned[1] = sOut[1].returned[2]

\* What the code does: the two calls resolve to one instance exactly when
\* their lists join to the same key, and the label map of each instance is
\* labelValuesToMap of the list it was created with.
OneSeriesPerKey ==
    sOut # <<>> =>
        /\ (sOut[1].returned[1] = sOut[1].returned[2]) <=>
               (labelValuesKey(sIn.first) = labelValuesKey(sIn.second))
        /\ sOut[1].counters[sOut[1].returned[1]].Labels =
               labelValuesToMap(sIn.labelKeys, sIn.first)

\* Inc("200") and Inc("200", "GET") on a counter with the one label key
\* "status": two instances, each with the label map status = "200".
SameLabelsTwice_Reached ==
    /\ sOut # <<>>
    /\ sIn = [labelKeys |-> <<"status">>, first |-> <<"200">>, second |-> <<"200", "GET">>]
    /\ Cardinality(DOMAIN sOut[1].registry) = 2
    /\ sOut[1].counters[1].Labels = sOut[1].counters[2].Labels
    /\ sOut[1].counters[1].Labels = [k \in {"status"} |-> "200"]

\* The number of positions of a list that hold x.
Occurrences(list, x) == Cardinality({i \in 1..Len(list) : list[i] = x})

\* Every creation call has returned.
AppendQuiescent == \A p \in Procs : acalls[p].pc = "idle"

\* C38: when the concurrent creation and registration calls have all
\* returned, every element a call created is in its list exactly once.
C38_NoAppendLost ==
    AppendQuiescent =>
        \A l \in AppendLists : \A x \in areturned[l] : Occurrences(alists[l], x) = 1

\* What the code does: no list holds an element twice or an element of another
\* list, and a list that no two calls were appending to at one time holds
\* every element created for it.
NoAppendLostWithoutRace ==
    \A l \in AppendLists :
        /\ \A i, j \in 1..Len(alists[l]) : alists[l][i] = alists[l][j] => i = j
        /\ \A i \in 1..Len(alists[l]) : alists[l][i] \in areturned[l]
        /\ (AppendQuiescent /\ l \notin araced) =>
              \A x \in areturned[l] : Occurrences(alists[l], x) = 1

\* Two Counter calls have returned and Counters holds the second counter only.
AppendLost_Reached ==
    /\ AppendQuiescent
    /\ areturned["Counters"] = {1, 2}
    /\ alists["Counters"] = <<2>>

\* C39: the ticks of one schedule do not overlap: a tick begins only at the
\* select, when every listener call and the Emit call of the tick before have
\* returned; while a tick is in progress no other begins, however often the
\* ticker fires meanwhile; so at most one Emit of the schedule is in progress.
C39_TicksDoNotOverlap ==
    /\ [][ticks' # ticks =>
            /\ ticks' = ticks + 1
            /\ sched.pc = "select"
            /\ emitCalls = ticks
            /\ ticks > 0 => tickLog = ExpectedLog(listeners)
            /\ tickLog' = <<>>]_vars
    /\ [][InTick => ticks' = ticks]_vars
    /\ [][emitCalls' # emitCalls =>
            /\ emitCalls' = emitCalls + 1
            /\ sched.pc = "notify" /\ sched'.pc = "emit"
            /\ emitCalls' = ticks]_vars
    /\ [](sched.pc = "emit" => emitCalls = ticks)

\* C39 witness: the Emit of the second tick is in progress after the first
\* tick ran to its end, and the ticker has fired again since the second tick
\* began: the tick waits in the channel.
C39_Witness ==
    /\ listeners # <<>>
    /\ ticks = 2 /\ emitCalls = 2
    /\ sched.pc = "emit"
    /\ fired = 3 /\ tickerC = 1
    /\ ~ctxDone

\* The ticker fired twice during one tick: the second firing was dropped.
SlowExport_Reached ==
    /\ ticks = 1 /\ sched.pc = "emit"
    /\ fired = 3 /\ tickerC = 1

\* C40: for every value of the int64 range and every step > 0 the sum
\* value - Offset + Step of bucketForValue equals its mathematical value (it does
\* not wrap around), and a value within Step of the int64 maximum is counted in
\* the overflow bucket numBuckets+1, never in the underflow bucket 0.
C40_NoWrapInBucketSelection ==
    bOut # <<>> =>
        LET d == NewStaticDistribution("latency", "ms", bIn.step, bIn.numBuckets, EmptyMap)
            shifted == Wrap(Wrap(bIn.value - d.Offset) + d.Step)
        IN  /\ shifted = bIn.value - d.Offset + d.Step
            /\ bIn.value > MaxInt - d.Step =>
                  /\ bOut[1] = d.NumBuckets + 1
                  /\ bOut[1] # 0

\* The sum is exact, and the bucket the overflow one, for every value that leaves
\* room for Step below the int64 maximum and lies at or above the last boundary.
NoWrapBelowMaxLessStep ==
    (bOut # <<>> /\ BucketNoOverflow) =>
        /\ Wrap(Wrap(bIn.value - 0) + bIn.step) = bIn.value + bIn.step
        /\ bIn.value >= bIn.step * bIn.numBuckets => bOut[1] = bIn.numBuckets + 1
\* The largest int64 with the smallest step: the sum wraps to the minimum.
MaxValueInUnderflow_Reached ==
    /\ bOut # <<>>
    /\ bIn.value = MaxInt /\ bIn.step = 1
    /\ Wrap(bIn.value + bIn.step) = MinInt
    /\ bOut[1] = 0

====
